---------------------------- MODULE Spec2Model ----------------------------
(***************************************************************************)
(* A model of github.com/mishudark/magic-decoder: the tag-driven field     *)
(* population engine ParseToStruct, the extractors that feed it and the    *)
(* pipeline runner Magic.                                                  *)
(*                                                                         *)
(* Texts are TLA+ strings holding one character per byte of the Go string  *)
(* (Go's len and its slices count bytes), so a character outside ASCII is  *)
(* written as the bytes of its UTF-8 encoding; positions are 1-based       *)
(* (Go's are 0-based).                                                     *)
(* A Go map[string]string is a record [isNil, m] whose m is a function    *)
(* from the keys present to their values.                                  *)
(***************************************************************************)
EXTENDS Integers, Sequences, FiniteSets, TLC

(***************************************************************************)
(* Bounds of the model.                                                    *)
(***************************************************************************)
\* Number of API calls made on one destination in one behaviour.
MaxCalls == 2

(***************************************************************************)
(* Text helpers (package strings, and the byte tests of strconv and time). *)
(***************************************************************************)
Char(s, i) == SubSeq(s, i, i)

Digits == {"0", "1", "2", "3", "4", "5", "6", "7", "8", "9"}

\* time.isDigit(s, i): i is inside s and the byte there is a decimal digit.
isDigit(s, i) == i >= 1 /\ i <= Len(s) /\ Char(s, i) \in Digits

DigitVal(c) == CHOOSE d \in 0..9 : Char("0123456789", d + 1) = c

AllDigits(s) == \A i \in 1..Len(s) : Char(s, i) \in Digits

\* strings.Index(s, c) + 1 for a one-byte c; 0 when c does not occur.
IndexByte(s, c) ==
    IF \E i \in 1..Len(s) : Char(s, i) = c
    THEN CHOOSE i \in 1..Len(s) :
            Char(s, i) = c /\ \A j \in 1..(i - 1) : Char(s, j) # c
    ELSE 0

\* strings.Contains(s, c) for a one-byte c.
Contains(s, c) == IndexByte(s, c) # 0

RECURSIVE Split(_, _)
\* The pieces of s when its first separator is at position i (0: none).
SplitAt(s, sep, i) ==
    IF i = 0 THEN <<s>>
    ELSE <<SubSeq(s, 1, i - 1)>> \o Split(SubSeq(s, i + 1, Len(s)), sep)

\* strings.Split(s, sep) for a one-byte sep: always at least one piece.
Split(s, sep) == SplitAt(s, sep, IndexByte(s, sep))

\* The lower-case letter of an upper-case ASCII letter; any other byte as it
\* is.
LowerChar(c) ==
    LET i == IndexByte("ABCDEFGHIJKLMNOPQRSTUVWXYZ", c)
    IN  IF i = 0 THEN c ELSE Char("abcdefghijklmnopqrstuvwxyz", i)

RECURSIVE ToLower(_)
\* strings.ToLower, as far as its result is compared with ASCII words: the
\* ASCII letters are lowered, every other byte is kept.
ToLower(s) ==
    IF Len(s) <= 1 THEN LowerChar(s)
    ELSE ToLower(SubSeq(s, 1, Len(s) \div 2))
         \o ToLower(SubSeq(s, (Len(s) \div 2) + 1, Len(s)))

(***************************************************************************)
(* Errors.  Every error value is a record of the same shape:               *)
(*   kind  "nil" (no error), "TypeError" (fmt.Errorf "... must be a struct *)
(*         pointer"), "NumError" (strconv), "ParseError" (time), "Body"    *)
(*         (JSON decoder) or "panic" (a run-time panic of package reflect) *)
(*   fn    the function that failed;  text  the text it failed on;         *)
(*   why   the reason the function gives.                                  *)
(***************************************************************************)
NoError == [kind |-> "nil", fn |-> "", text |-> "", why |-> ""]

MkError(kind, fn, text, why) ==
    [kind |-> kind, fn |-> fn, text |-> text, why |-> why]

(***************************************************************************)
(* strconv.ParseUint / ParseInt / Atoi in base 10 at 64 bits.              *)
(* The range tests compare decimal numerals, so they are exact although    *)
(* the model checker's own integers are narrower than 64 bits.             *)
(***************************************************************************)
MaxUint64Text == "18446744073709551615"

\* s without its leading zeros (one digit is kept).
StripZeros(s) ==
    IF \A i \in 1..Len(s) : Char(s, i) = "0" THEN SubSeq(s, Len(s), Len(s))
    ELSE SubSeq(s, CHOOSE i \in 1..Len(s) :
                      /\ Char(s, i) # "0"
                      /\ \A j \in 1..(i - 1) : Char(s, j) = "0",
                Len(s))

\* a <= b for two numerals of the same length: they are equal, or a has the
\* lesser digit where they first differ.
DecLE(a, b) ==
    \/ a = b
    \/ LET i == CHOOSE k \in 1..Len(a) :
                    /\ Char(a, k) # Char(b, k)
                    /\ \A j \in 1..(k - 1) : Char(a, j) = Char(b, j)
       IN  DigitVal(Char(a, i)) < DigitVal(Char(b, i))

\* The numeral d (digits only) denotes a number greater than the numeral max.
Exceeds(d, max) ==
    LET t == StripZeros(d)
    IN  Len(t) > Len(max) \/ (Len(t) = Len(max) /\ ~DecLE(t, max))

RECURSIVE Horner(_, _)
\* The number a numeral denotes, most significant digit first.
Horner(acc, d) ==
    IF d = "" THEN acc ELSE Horner(acc * 10 + DigitVal(Head(d)), Tail(d))

\* Position of the first byte of s that is not a digit; 0 when all are.
FirstNonDigit(s) ==
    IF AllDigits(s) THEN 0
    ELSE CHOOSE i \in 1..Len(s) :
            Char(s, i) \notin Digits /\ AllDigits(SubSeq(s, 1, i - 1))

\* strconv.ParseUint(s, 10, 64): [err |-> "nil" | "syntax" | "range", x].
ParseUintRaw(s) ==
    IF s = "" THEN [err |-> "syntax", x |-> 0]
    ELSE LET p == FirstNonDigit(s)
         IN  IF p # 0
             THEN \* the scan stops at the first event: overflow of the
                  \* digits read so far, or the bad byte
                  IF p > 1 /\ Exceeds(SubSeq(s, 1, p - 1), MaxUint64Text)
                  THEN [err |-> "range", x |-> 0]
                  ELSE [err |-> "syntax", x |-> 0]
             ELSE IF Exceeds(s, MaxUint64Text)
                  THEN [err |-> "range", x |-> 0]
                  ELSE [err |-> "nil", x |-> Horner(0, StripZeros(s))]

\* strconv.ParseInt(s, 10, 64): [err, x].
ParseIntRaw(s) ==
    IF s = "" THEN [err |-> "syntax", x |-> 0]
    ELSE LET neg  == Head(s) = "-"
             body == IF Head(s) \in {"+", "-"} THEN Tail(s) ELSE s
             p    == IF body = "" THEN 1 ELSE FirstNonDigit(body)
         IN  IF body = "" THEN [err |-> "syntax", x |-> 0]
             ELSE IF p # 0
                  THEN IF p > 1 /\ Exceeds(SubSeq(body, 1, p - 1), MaxUint64Text)
                       THEN [err |-> "range", x |-> 0]
                       ELSE [err |-> "syntax", x |-> 0]
             ELSE IF Exceeds(body, IF neg THEN "9223372036854775808"
                                  ELSE "9223372036854775807")
                  THEN [err |-> "range", x |-> 0]
             ELSE LET un == Horner(0, StripZeros(body))
                  IN  [err |-> "nil", x |-> IF neg THEN 0 - un ELSE un]

NumResult(fn, s, r) ==
    [err |-> IF r.err = "nil" THEN NoError
             ELSE MkError("NumError", fn, s, r.err),
     x   |-> r.x]

ParseInt(s)  == NumResult("ParseInt", s, ParseIntRaw(s))
ParseUint(s) == NumResult("ParseUint", s, ParseUintRaw(s))
Atoi(s)      == NumResult("Atoi", s, ParseIntRaw(s))


(***************************************************************************)
(* strconv.ParseFloat(s, bitSize).  A float is the record [class, neg,     *)
(* mant, exp]: class "finite", "inf" or "nan", and for a finite value the  *)
(* decimal mant * 10^exp with mant a numeral without leading or trailing   *)
(* zeros.  For bitSize 64 the decimal is the one the text writes: it names *)
(* the float64 nearest to it, which is the value ParseFloat returns.  A    *)
(* float32 is the decimal of its own value.                                *)
(***************************************************************************)
\* Numeral of 2^1024 - 2^970, the least magnitude that rounds to infinity.
FloatOverflowText ==
    "179769313486231580793728971405303415079934132710037826936173778980444968292764750946649017977587207096330286416692887910946555547851940402630657488671505820681908902000708383676273854845817711531764475730270069855571366959622842914819860834936475292719074168444365510704342711559699508093042880177904174497792"

\* Numeral of 5^1075: 5^1075 * 10^-1075 = 2^-1075 is half the least denormal,
\* the greatest magnitude that rounds to zero.
FloatUnderflowText ==
    "24703282292062327208828439643411068618252990130716238221279284125033775363510437593264991818081799618989828234772285886546332835517796989819938739800539093906315035659515570226392290858392449105184435931802849936536152500319370457678249219365623669863658480757001585769269903706311928279558551332927834338409351978015531246597263579574622766465272827220056374006485499977096599470454020828166226237857393450736339007967761930577506740176324673600968951340535537458516661134223766678604162159680461914467291840300530057530849048765391711386591646239524912623653881879636239373280423891018672348497668235089863388587925628302755995657524455507255189313690836254779186948667994968324049705821028513185451396213837722826145437693412532098591327667236328125"

FloatZero == [class |-> "finite", neg |-> FALSE, mant |-> "0", exp |-> 0]

\* s without its trailing zeros (one digit is kept).
StripTrailingZeros(s) ==
    IF \A i \in 1..Len(s) : Char(s, i) = "0" THEN SubSeq(s, 1, 1)
    ELSE SubSeq(s, 1, CHOOSE i \in 1..Len(s) :
                         /\ Char(s, i) # "0"
                         /\ \A j \in (i + 1)..Len(s) : Char(s, j) = "0")

\* Length of the longest prefix of s made of digits.
DigitRun(s) ==
    LET p == FirstNonDigit(s) IN IF p = 0 THEN Len(s) ELSE p - 1

\* Length of the longest prefix of s made of hexadecimal digits.
HexRun(s) ==
    IF \A i \in 1..Len(s) : Contains("0123456789abcdef", LowerChar(Char(s, i)))
    THEN Len(s)
    ELSE (CHOOSE i \in 1..Len(s) :
             /\ ~Contains("0123456789abcdef", LowerChar(Char(s, i)))
             /\ \A j \in 1..(i - 1) : Contains("0123456789abcdef", LowerChar(Char(s, j))))
         - 1

\* a < b for numerals without trailing zeros compared as the decimal
\* fractions 0.a and 0.b.
FracLess(a, b) ==
    LET n == IF Len(a) < Len(b) THEN Len(a) ELSE Len(b)
    IN  IF SubSeq(a, 1, n) = SubSeq(b, 1, n) THEN Len(a) < Len(b)
        ELSE DecLE(SubSeq(a, 1, n), SubSeq(b, 1, n))

RECURSIVE Numeral(_)
\* The numeral of a natural number.
Numeral(x) ==
    IF x < 10 THEN Char("0123456789abcdef", x + 1)
    ELSE Numeral(x \div 10) \o Char("0123456789abcdef", (x % 10) + 1)

RECURSIVE MulAddW(_, _, _)
\* d * m + c for a run of digits d and naturals c <= m, as [digits, carry]:
\* the product is carry * 10^Len(d) + digits, digits as long as d.
MulAddW(d, m, c) ==
    CASE c >= 0 /\ Len(d) = 1 ->
            [digits |-> Numeral((DigitVal(d) * m + c) % 10),
             carry |-> (DigitVal(d) * m + c) \div 10]
      [] c >= 0 /\ Len(d) > 1 ->
            LET lo == MulAddW(SubSeq(d, (Len(d) \div 2) + 1, Len(d)), m, c)
                hi == MulAddW(SubSeq(d, 1, Len(d) \div 2), m, lo.carry)
            IN  [digits |-> hi.digits \o lo.digits, carry |-> hi.carry]

\* The numeral of d * m + c.
MulAdd(d, m, c) ==
    LET r == MulAddW(d, m, c) IN StripZeros(Numeral(r.carry) \o r.digits)

RECURSIVE Times(_, _, _)
\* The numeral of d * m^k, for m in {2, 5, 10}: by the greatest power of m
\* that leaves room for a digit's product and a carry, at each step.
Times(d, m, k) ==
    IF d = "0" THEN "0"
    ELSE IF k <= (IF m = 2 THEN 27 ELSE IF m = 5 THEN 11 ELSE 8)
         THEN MulAdd(d, m^k, 0)
    ELSE Times(Times(d, m, k \div 2), m, k - (k \div 2))

RECURSIVE HexInt(_)
\* The number a short run of hexadecimal digits writes.
HexInt(h) ==
    IF h = "" THEN 0
    ELSE 16 * HexInt(SubSeq(h, 1, Len(h) - 1))
         + (IndexByte("0123456789abcdef", LowerChar(Char(h, Len(h)))) - 1)

RECURSIVE HexNumeral(_)
\* The decimal numeral of a run of hexadecimal digits, six digits at a time.
HexNumeral(h) ==
    IF Len(h) <= 6 THEN Numeral(HexInt(h))
    ELSE MulAdd(HexNumeral(SubSeq(h, 1, Len(h) - 6)), 16^6,
                HexInt(SubSeq(h, Len(h) - 5, Len(h))))

NoDecimal == [ok |-> FALSE, mant |-> "0", exp |-> 0]

\* The decimal digits * 10^e for a numeral digits without leading zeros:
\* [ok, mant, exp], mant without trailing zeros.
Digits10(digits, e) ==
    [ok |-> TRUE, mant |-> StripTrailingZeros(digits),
     exp |-> IF StripTrailingZeros(digits) = "0" THEN 0
             ELSE e + (Len(digits) - Len(StripTrailingZeros(digits)))]

\* The value of integer part ip, fraction part fp and exponent e.
Decimal(ip, fp, e) == Digits10(StripZeros(ip \o fp), e - Len(fp))

\* The decimal of h * 2^k, h a run of n hexadecimal digits without leading
\* zeros.  A value of 2^1024 or more, or of 2^-1075 or less, is not worked
\* out: a decimal beyond the range of float64 on that side stands for it.
HexScaled(h, n, k) ==
    IF h = "0" THEN Digits10("0", 0)
    ELSE IF 4 * (n - 1) + k >= 1024 THEN Digits10("1", 10000)
    ELSE IF 4 * n + k <= -1075 THEN Digits10("1", -10000)
    ELSE IF k >= 0 THEN Digits10(Times(HexNumeral(h), 2, k), 0)
    ELSE Digits10(Times(HexNumeral(h), 5, 0 - k), k)

\* The value read: mantissa ip.fp and exponent e, in base 10, or in base 16
\* with a binary exponent.
Scaled(hex, ip, fp, e) ==
    IF hex THEN HexScaled(StripZeros(ip \o fp), Len(StripZeros(ip \o fp)),
                          e - 4 * Len(fp))
    ELSE Decimal(ip, fp, e)

\* The exponent's digits r5: readFloat adds a digit to the exponent only
\* while the exponent is below 10000.
ExpDigits(hex, ip, fp, eneg, r5) ==
    IF r5 = "" \/ ~AllDigits(r5) THEN NoDecimal
    ELSE Scaled(hex, ip, fp,
                (IF eneg THEN -1 ELSE 1)
                * Horner(0, SubSeq(StripZeros(r5), 1,
                                   IF Len(StripZeros(r5)) < 5
                                   THEN Len(StripZeros(r5)) ELSE 5)))

\* The text r4 after the exponent letter: a sign, then the digits.
ExpSign(hex, ip, fp, r4) ==
    ExpDigits(hex, ip, fp, r4 # "" /\ Head(r4) = "-",
              IF r4 # "" /\ Head(r4) \in {"+", "-"} THEN Tail(r4) ELSE r4)

\* The text r3 after the mantissa ip.fp: an exponent (e in base 10, p in
\* base 16), or nothing in base 10.
Exponent(hex, ip, fp, r3) ==
    IF ip \o fp = "" THEN NoDecimal
    ELSE IF r3 = "" THEN (IF hex THEN NoDecimal ELSE Decimal(ip, fp, 0))
    ELSE IF LowerChar(Head(r3)) = (IF hex THEN "p" ELSE "e")
         THEN ExpSign(hex, ip, fp, Tail(r3))
    ELSE NoDecimal

\* The text r1 after the integer part ip: a point and the digits of the
\* fraction, if there is a point.
Mantissa(hex, ip, r1) ==
    LET r2 == IF r1 # "" /\ Head(r1) = "." THEN Tail(r1) ELSE r1
        n2 == IF r1 = "" \/ Head(r1) # "." THEN 0
              ELSE IF hex THEN HexRun(r2) ELSE DigitRun(r2)
    IN  Exponent(hex, ip, SubSeq(r2, 1, n2), SubSeq(r2, n2 + 1, Len(r2)))

\* The digits u after the base prefix, if any: the integer part first.
IntegerPart(hex, u) ==
    LET n1 == IF hex THEN HexRun(u) ELSE DigitRun(u)
    IN  Mantissa(hex, SubSeq(u, 1, n1), SubSeq(u, n1 + 1, Len(u)))

\* readFloat on a text without underscores: the base prefix 0x, then the
\* digits.
ReadDigits(u) ==
    LET hex == Len(u) > 2 /\ Head(u) = "0" /\ LowerChar(Char(u, 2)) = "x"
    IN  IntegerPart(hex, IF hex THEN SubSeq(u, 3, Len(u)) ELSE u)

\* strconv.underscoreOK on a text without sign: every underscore follows a
\* digit or the base prefix, and a digit follows it.
underscoreOK(u) ==
    LET pre == Len(u) >= 2 /\ Head(u) = "0"
               /\ Contains("box", LowerChar(Char(u, 2)))
        hex == pre /\ LowerChar(Char(u, 2)) = "x"
        digit(i) == /\ i >= (IF pre THEN 3 ELSE 1)
                    /\ i <= Len(u)
                    /\ \/ Char(u, i) \in Digits
                       \/ hex /\ Contains("abcdef", LowerChar(Char(u, i)))
    IN  \A i \in (IF pre THEN 3 ELSE 1)..Len(u) :
            Char(u, i) = "_" =>
                /\ digit(i - 1) \/ (pre /\ i = 3)
                /\ digit(i + 1)

RECURSIVE SkipUnderscores(_)
\* The text as the loops of readFloat read it: they pass over underscores.
SkipUnderscores(s) ==
    IF Len(s) <= 1 THEN (IF s = "_" THEN "" ELSE s)
    ELSE SkipUnderscores(SubSeq(s, 1, Len(s) \div 2))
         \o SkipUnderscores(SubSeq(s, (Len(s) \div 2) + 1, Len(s)))

\* strconv.readFloat on the text u after the sign: [ok, mant, exp], ok when
\* the whole of u is a number.
ReadDecimal(u) ==
    IF Contains(u, "_") /\ ~underscoreOK(u) THEN NoDecimal
    ELSE ReadDigits(SkipUnderscores(u))

\* The finite float of sign neg and decimal d.
Finite(neg, d) ==
    [class |-> "finite", neg |-> neg, mant |-> d.mant, exp |-> d.exp]

\* The float of sign neg and decimal d, whose value is 0.mant * 10^top: out
\* of range (and infinite) from 2^1024 - 2^970 on, zero up to 2^-1075.
FloatOf(s, neg, d) ==
    LET top == Len(d.mant) + d.exp
    IN
    IF ~d.ok
    THEN [err |-> MkError("NumError", "ParseFloat", s, "syntax"),
          x |-> FloatZero]
    ELSE IF d.mant # "0"
            /\ (top > Len(FloatOverflowText)
                \/ (top = Len(FloatOverflowText)
                    /\ ~FracLess(d.mant, FloatOverflowText)))
         THEN [err |-> MkError("NumError", "ParseFloat", s, "range"),
               x |-> [class |-> "inf", neg |-> neg, mant |-> "0", exp |-> 0]]
    ELSE IF d.mant # "0"
            /\ (top < Len(FloatUnderflowText) - 1075
                \/ (top = Len(FloatUnderflowText) - 1075
                    /\ (d.mant = FloatUnderflowText
                        \/ FracLess(d.mant, FloatUnderflowText))))
         THEN [err |-> NoError, x |-> Finite(neg, Digits10("0", 0))]
    ELSE [err |-> NoError, x |-> Finite(neg, d)]

\* s without its sign is u.
ParseFloatSigned(s, neg, u) ==
    IF ToLower(u) \in {"inf", "infinity"}
    THEN [err |-> NoError,
          x |-> [class |-> "inf", neg |-> neg, mant |-> "0", exp |-> 0]]
    ELSE IF ToLower(s) = "nan"
         THEN [err |-> NoError,
               x |-> [class |-> "nan", neg |-> FALSE, mant |-> "0", exp |-> 0]]
    ELSE FloatOf(s, neg, ReadDecimal(u))

\* The number a * 10^sh, for a numeral a: [m, rest], m the numeral of its
\* integer part and rest how its fraction compares with one half.
Shifted(a, sh) ==
    IF sh >= 0 THEN [m |-> Times(a, 10, sh), rest |-> "zero"]
    ELSE IF Len(a) + sh < 0
         THEN [m |-> "0", rest |-> IF a = "0" THEN "zero" ELSE "below"]
    ELSE LET f == SubSeq(a, Len(a) + sh + 1, Len(a))
         IN  [m |-> IF Len(a) + sh = 0 THEN "0" ELSE SubSeq(a, 1, Len(a) + sh),
              rest |-> IF \A i \in 1..Len(f) : Char(f, i) = "0" THEN "zero"
                       ELSE IF DigitVal(Head(f)) < 5 THEN "below"
                       ELSE IF Head(f) = "5"
                               /\ \A i \in 2..Len(f) : Char(f, i) = "0"
                            THEN "half"
                       ELSE "above"]

\* x / 2^k for the magnitude of a finite float x, as Shifted gives it.
Quotient(x, k) ==
    IF k <= 0 THEN Shifted(Times(x.mant, 2, 0 - k), x.exp)
    ELSE Shifted(Times(x.mant, 5, k), x.exp - k)

\* The binary exponent e of a finite float x that is not zero:
\* 2^e <= |x| < 2^(e + 1).  With d the first digit of x.mant,
\* d * 10^n <= |x| < (d + 1) * 10^n, which leaves one or two values for e:
\* log has 1000 * log2 of 1..10, rounded down, and log2(10) is 3.32192...
Exponent2(x) ==
    LET n == Len(x.mant) + x.exp - 1
        d == DigitVal(Head(x.mant))
        log == <<0, 1000, 1584, 2000, 2321, 2584, 2807, 3000, 3169, 3321>>
    IN  CHOOSE e \in ((log[d] + ((332192 * n) \div 100) - 8) \div 1000)
                    ..((log[d + 1] + ((332192 * n) \div 100) + 8) \div 1000) :
            Quotient(x, e).m = "1"

\* The float x of binary exponent e in the format of bitSize bits, its
\* mantissa being q = |x| / 2^k: the mantissa is rounded to the nearest
\* whole number, to the even one from half way.  A mantissa of all ones
\* that is rounded up at the greatest exponent gives an infinity, which is
\* out of range for ParseFloat(s, bitSize).
Rounded(s, x, bitSize, e, k, q) ==
    IF \/ e > (IF bitSize = 32 THEN 127 ELSE 1023)
       \/ /\ e = (IF bitSize = 32 THEN 127 ELSE 1023)
          /\ q.m = (IF bitSize = 32 THEN "16777215" ELSE "9007199254740991")
          /\ q.rest \in {"half", "above"}
    THEN [err |-> MkError("NumError", "ParseFloat", s, "range"),
          x |-> [class |-> "inf", neg |-> x.neg, mant |-> "0", exp |-> 0]]
    ELSE [err |-> NoError,
          x |-> Finite(x.neg,
                   Digits10(Times(IF \/ q.rest = "above"
                                     \/ /\ q.rest = "half"
                                        /\ DigitVal(Char(q.m, Len(q.m))) % 2 = 1
                                  THEN MulAdd(q.m, 1, 1) ELSE q.m,
                                  IF k >= 0 THEN 2 ELSE 5,
                                  IF k >= 0 THEN k ELSE 0 - k),
                            IF k >= 0 THEN 0 ELSE k))]

\* The float x rounded to the nearest value of the format of bitSize bits:
\* [err, x].  The mantissa has 24 bits (53 for bitSize 64) at the binary
\* exponent e of x, which is not taken below -126 (-1022).
RoundTo(s, x, bitSize, e) ==
    Rounded(s, x, bitSize, e,
            (IF e < (IF bitSize = 32 THEN -126 ELSE -1022)
             THEN (IF bitSize = 32 THEN -126 ELSE -1022) ELSE e)
            - (IF bitSize = 32 THEN 23 ELSE 52),
            Quotient(x, (IF e < (IF bitSize = 32 THEN -126 ELSE -1022)
                         THEN (IF bitSize = 32 THEN -126 ELSE -1022) ELSE e)
                        - (IF bitSize = 32 THEN 23 ELSE 52)))

\* The float of the result r in the format of bitSize bits: an infinity, a
\* NaN and a zero are values of both formats.
Narrowed(s, bitSize, r) ==
    IF r.err # NoError \/ r.x.class # "finite" \/ r.x.mant = "0" THEN r
    ELSE RoundTo(s, r.x, bitSize, Exponent2(r.x))

\* The result r of reading s for 64 bits, as the result for bitSize bits.
FloatSized(s, bitSize, r) ==
    IF bitSize = 64 THEN r ELSE Narrowed(s, 32, r)

ParseFloat(s, bitSize) ==
    IF s = ""
    THEN [err |-> MkError("NumError", "ParseFloat", s, "syntax"),
          x |-> FloatZero]
    ELSE FloatSized(s, bitSize,
             ParseFloatSigned(s, Head(s) = "-",
                              IF Head(s) \in {"+", "-"} THEN Tail(s) ELSE s))

(***************************************************************************)
(* time.ParseInLocation(layout, value, time.Local) for the five layouts    *)
(* ParseToStruct uses.  A layout is the sequence of chunks that            *)
(* time.nextStdChunk yields: a literal byte, or one of the standard        *)
(* elements "2006" "01" "02" "15" "04" "05" "Z07:00".                      *)
(*                                                                         *)
(* A time is [year, month, day, hour, min, sec, nsec, loc, offset]; loc is *)
(* "UTC", "Local" (the process's zone) or "Fixed" (a numeric offset read   *)
(* from the text, in seconds, that is not the offset of the local zone).   *)
(***************************************************************************)
\* The offset of time.Local, in seconds east of UTC: the process runs in a
\* zone that keeps the time of UTC all year.
LocalOffset == 0

formatTime      == <<"15", ":", "04", ":", "05">>
formatDate      == <<"2006", "-", "01", "-", "02">>
formatDateTime  == formatDate \o <<" ">> \o formatTime
formatDateTimeT == formatDate \o <<"T">> \o formatTime
RFC3339         == formatDateTimeT \o <<"Z07:00">>

\* The zero time.Time.
ZeroTime ==
    [year |-> 1, month |-> 1, day |-> 1, hour |-> 0, min |-> 0, sec |-> 0,
     nsec |-> 0, loc |-> "UTC", offset |-> 0]

\* time.getnum: one or two digits ([ok, n, rest]); exactly two when fixed.
getnum(s, fixed) ==
    IF ~isDigit(s, 1) THEN [ok |-> FALSE, n |-> 0, rest |-> s]
    ELSE IF ~isDigit(s, 2)
         THEN IF fixed THEN [ok |-> FALSE, n |-> 0, rest |-> s]
              ELSE [ok |-> TRUE, n |-> DigitVal(Char(s, 1)), rest |-> Tail(s)]
    ELSE [ok |-> TRUE,
          n |-> DigitVal(Char(s, 1)) * 10 + DigitVal(Char(s, 2)),
          rest |-> SubSeq(s, 3, Len(s))]

\* time.skip for a one-byte prefix: a space in the layout matches any run of
\* spaces in the value (an empty value included), and time.cutspace leaves
\* the value without its leading spaces.
skip(value, prefix) ==
    IF prefix = " "
    THEN IF value # "" /\ Head(value) # " "
         THEN [ok |-> FALSE, rest |-> value]
         ELSE IF \A i \in 1..Len(value) : Char(value, i) = " "
              THEN [ok |-> TRUE, rest |-> ""]
         ELSE [ok |-> TRUE,
               rest |-> SubSeq(value,
                               CHOOSE i \in 1..Len(value) :
                                  /\ Char(value, i) # " "
                                  /\ \A j \in 1..(i - 1) : Char(value, j) = " ",
                               Len(value))]
    ELSE IF value = "" \/ Head(value) # prefix
         THEN [ok |-> FALSE, rest |-> value]
         ELSE [ok |-> TRUE, rest |-> Tail(value)]

daysIn(month, year) ==
    IF month = 2
    THEN (IF year % 4 = 0 /\ (year % 100 # 0 \/ year % 400 = 0) THEN 29 ELSE 28)
    ELSE IF month \in {4, 6, 9, 11} THEN 30 ELSE 31

\* time.parseNanoseconds on the digits after the separator.
Nanoseconds(d) ==
    LET nine == SubSeq(d \o "000000000", 1, 9) IN Horner(0, StripZeros(nine))

\* The parser's variables before the first chunk.
ParseStart(value) ==
    [value |-> value, year |-> 0, month |-> -1, day |-> -1, hour |-> 0,
     min |-> 0, sec |-> 0, nsec |-> 0, zone |-> "none", zoneOffset |-> -1,
     bad |-> ""]

\* One iteration of the loop of time.parse on a standard element.
ParseStd(std, st) ==
    LET v == st.value
        failed(why) == [st EXCEPT !.bad = why]
    IN  CASE std = "2006" ->
               IF Len(v) < 4 \/ ~isDigit(v, 1) THEN failed("bad")
               ELSE IF ~AllDigits(SubSeq(v, 1, 4)) THEN failed("bad")
               ELSE [st EXCEPT !.year = Horner(0, SubSeq(v, 1, 4)),
                               !.value = SubSeq(v, 5, Len(v))]
          [] std = "01" ->
               LET g == getnum(v, TRUE)
               IN  IF ~g.ok THEN failed("bad")
                   ELSE IF g.n <= 0 \/ 12 < g.n THEN failed("month out of range")
                   ELSE [st EXCEPT !.month = g.n, !.value = g.rest]
          [] std = "02" ->
               LET g == getnum(v, TRUE)
               IN  IF ~g.ok THEN failed("bad")
                   ELSE [st EXCEPT !.day = g.n, !.value = g.rest]
          [] std = "15" ->
               LET g == getnum(v, FALSE)
               IN  IF ~g.ok THEN failed("bad")
                   ELSE IF g.n < 0 \/ 24 <= g.n THEN failed("hour out of range")
                   ELSE [st EXCEPT !.hour = g.n, !.value = g.rest]
          [] std = "04" ->
               LET g == getnum(v, TRUE)
               IN  IF ~g.ok THEN failed("bad")
                   ELSE IF g.n < 0 \/ 60 <= g.n THEN failed("minute out of range")
                   ELSE [st EXCEPT !.min = g.n, !.value = g.rest]
          [] std = "05" ->
               LET g == getnum(v, TRUE)
                   r == g.rest
                   \* a fractional second the layout does not mention
                   frac == Len(r) >= 2 /\ Head(r) \in {".", ","} /\ isDigit(r, 2)
                   n == IF frac THEN DigitRun(Tail(r)) ELSE 0
               IN  IF ~g.ok THEN failed("bad")
                   ELSE IF g.n < 0 \/ 60 <= g.n THEN failed("second out of range")
                   ELSE IF frac
                        THEN [st EXCEPT !.sec = g.n,
                                        !.nsec = Nanoseconds(SubSeq(r, 2, n + 1)),
                                        !.value = SubSeq(r, n + 2, Len(r))]
                   ELSE [st EXCEPT !.sec = g.n, !.value = r]
          [] std = "Z07:00" ->
               IF Len(v) >= 1 /\ Head(v) = "Z"
               THEN [st EXCEPT !.zone = "UTC", !.value = Tail(v)]
               ELSE IF Len(v) < 6 THEN failed("bad")
               ELSE IF Char(v, 4) # ":" THEN failed("bad")
               ELSE LET hr == getnum(SubSeq(v, 2, 3), TRUE)
                        \* the minutes are read when the hours were
                        mm == IF hr.ok THEN getnum(SubSeq(v, 5, 6), TRUE)
                              ELSE [ok |-> FALSE, n |-> 0, rest |-> ""]
                        off == (hr.n * 60 + mm.n) * 60
                    IN  \* a number out of range is reported before a bad
                        \* number or sign, the minutes' before the hours'
                        IF mm.n > 60 THEN failed("time zone offset minute out of range")
                        ELSE IF hr.n > 24 THEN failed("time zone offset hour out of range")
                        ELSE IF ~hr.ok \/ ~mm.ok THEN failed("bad")
                        ELSE IF Head(v) = "+"
                             THEN [st EXCEPT !.zoneOffset = off,
                                             !.value = SubSeq(v, 7, Len(v))]
                        ELSE IF Head(v) = "-"
                             THEN [st EXCEPT !.zoneOffset = 0 - off,
                                             !.value = SubSeq(v, 7, Len(v))]
                        ELSE failed("bad")

RECURSIVE ParseChunks(_, _, _)
\* After the literal chunk k was matched against the value (s).
Skipped(layout, k, st, s) ==
    IF ~s.ok THEN [st EXCEPT !.bad = "bad"]
    ELSE ParseChunks(layout, k + 1, [st EXCEPT !.value = s.rest])

\* The loop of time.parse from chunk k of the layout on.
ParseChunks(layout, k, st) ==
    IF st.bad # "" THEN st
    ELSE IF k > Len(layout)
         THEN IF st.value # "" THEN [st EXCEPT !.bad = "extra text"] ELSE st
    ELSE IF layout[k] \in {"2006", "01", "02", "15", "04", "05", "Z07:00"}
         THEN ParseChunks(layout, k + 1, ParseStd(layout[k], st))
    ELSE Skipped(layout, k, st, skip(st.value, layout[k]))

\* The end of time.parse: the defaults of month and day, the validation of
\* the day, and the time in the zone read: UTC for Z; for an offset,
\* time.Local when it is the offset of the local zone and a fixed zone
\* otherwise; time.Local when the text names no zone.
TimeOf(value, st, month, day) ==
    IF st.bad # ""
    THEN [err |-> MkError("ParseError", "time.Parse", value, st.bad),
          t |-> ZeroTime]
    ELSE IF day < 1 \/ day > daysIn(month, st.year)
         THEN [err |-> MkError("ParseError", "time.Parse", value,
                               "day out of range"),
               t |-> ZeroTime]
    ELSE [err |-> NoError,
          t |-> [year |-> st.year, month |-> month, day |-> day,
                 hour |-> st.hour, min |-> st.min, sec |-> st.sec,
                 nsec |-> st.nsec,
                 loc |-> IF st.zone = "UTC" THEN "UTC"
                         ELSE IF st.zoneOffset \notin {-1, LocalOffset}
                              THEN "Fixed"
                         ELSE "Local",
                 offset |-> IF st.zone = "UTC" THEN 0
                            ELSE IF st.zoneOffset # -1 THEN st.zoneOffset
                            ELSE LocalOffset]]

ParseEnd(value, st) ==
    TimeOf(value, st, IF st.month < 0 THEN 1 ELSE st.month,
           IF st.day < 0 THEN 1 ELSE st.day)

\* time.ParseInLocation(layout, value, time.Local): [err, t].
ParseInLocation(layout, value) ==
    ParseEnd(value, ParseChunks(layout, 1, ParseStart(value)))

(***************************************************************************)
(* Destination records.  A struct type is [name, fields]; a field          *)
(* descriptor (reflect.StructField) is                                     *)
(*   [name, exported, anonymous, kind, type, tags]                         *)
(* with kind the reflect.Kind, type the text of reflect.Type.String() and  *)
(* tags the value StructTag.Get returns per key ("" when the key is        *)
(* absent).  The value of a struct is the sequence of its field values.    *)
(***************************************************************************)
Tags(form, path, json) == [form |-> form, path |-> path, json |-> json]

Field(name, kind, type, tags) ==
    [name |-> name, exported |-> TRUE, anonymous |-> FALSE,
     kind |-> kind, type |-> type, tags |-> tags]

\* StructTag.Get(key).
TagGet(fieldT, key) ==
    IF key \in DOMAIN fieldT.tags THEN fieldT.tags[key] ELSE ""

\* An interface value is [set, t, s, a]: nil (set is FALSE), or a value of
\* dynamic type t: the string s, the bool of text s, the float64 a[1], the
\* []interface {} a, or the map[string]interface {} a[1].
NilInterface == [set |-> FALSE, t |-> "", s |-> "", a |-> <<>>]
StringInterface(s) == [set |-> TRUE, t |-> "string", s |-> s, a |-> <<>>]

SignedKinds   == {"int", "int8", "int16", "int32", "int64"}
UnsignedKinds == {"uint", "uint8", "uint16", "uint32", "uint64"}
FloatKinds    == {"float32", "float64"}

\* The zero value of a type [kind, type].  A slice is the sequence of its
\* elements; a pointer is the sequence of the one variable it points at,
\* empty when nil; a map is [isNil, m]; a struct type the model does not
\* look into has the one value 0.
ZeroValue(fieldT) ==
    CASE fieldT.kind = "bool" -> FALSE
      [] fieldT.kind \in SignedKinds \cup UnsignedKinds -> 0
      [] fieldT.kind \in FloatKinds -> FloatZero
      [] fieldT.kind = "string" -> ""
      [] fieldT.kind = "interface" -> NilInterface
      [] fieldT.kind = "struct" /\ fieldT.type = "time.Time" -> ZeroTime
      [] fieldT.kind \in {"slice", "ptr"} -> <<>>
      [] fieldT.kind = "map" -> [isNil |-> TRUE, m |-> <<>>]
      [] OTHER -> 0

\* reflect.Type.Elem() of a slice type []E, a pointer type *E or a map type
\* map[string]E, E being a basic type: [kind, type].
ElemType(fieldT) ==
    LET e == CASE fieldT.kind = "slice" -> SubSeq(fieldT.type, 3, Len(fieldT.type))
               [] fieldT.kind = "ptr" -> SubSeq(fieldT.type, 2, Len(fieldT.type))
               [] fieldT.kind = "map" -> SubSeq(fieldT.type, 12, Len(fieldT.type))
    IN  [kind |-> e, type |-> e]

ZeroStruct(t) == [i \in 1..Len(t.fields) |-> ZeroValue(t.fields[i])]

\* decode_test.go, TestParseToStruct: type item.
item ==
    [name |-> "item",
     fields |-> << Field("Name", "string", "string", Tags("name", "", "")),
                   Field("Number", "int", "int", Tags("", "", "")),
                   Field("Money", "float64", "float64", Tags("", "", "")) >>]

\* decode_test.go, TestParseToStruct: type itemComplete.
itemComplete ==
    [name |-> "itemComplete",
     fields |-> << Field("Name", "string", "string", Tags("name", "", "")),
                   Field("Number", "int", "int", Tags("number", "", "")),
                   Field("Money", "float64", "float64", Tags("money", "", "")),
                   Field("IsSafe", "bool", "bool", Tags("issafe", "", "")),
                   Field("Numbers", "slice", "[]int", Tags("numbers", "", "")),
                   Field("Friends", "slice", "[]string", Tags("friends", "", "")) >>]

\* decode_test.go, TestMagic: type item, extended with fields bound in two
\* namespaces and an integer field bound from the query.
magicItem ==
    [name |-> "magicItem",
     fields |-> << Field("ID", "int", "int", Tags("", "id", "")),
                   Field("Name", "string", "string", Tags("name", "", "name")),
                   Field("Pet", "string", "string", Tags("pet", "pet", "")),
                   Field("Age", "int", "int", Tags("age", "", "")),
                   Field("Money", "float64", "float64", Tags("", "", "money")) >>]

\* Fields the tag rules skip: no tag, "-", an empty name before the options,
\* a tag in another namespace only, and an unexported field.
skipItem ==
    [name |-> "skipItem",
     fields |-> << Field("Name", "string", "string", Tags("name,omitempty", "", "")),
                   Field("Number", "int", "int", Tags("", "", "")),
                   Field("Dash", "string", "string", Tags("-", "", "")),
                   Field("Opt", "string", "string", Tags(",omitempty", "", "")),
                   Field("ID", "int", "int", Tags("", "id", "")),
                   [Field("secret", "string", "string", Tags("secret", "", ""))
                        EXCEPT !.exported = FALSE],
                   Field("DashOpt", "bool", "bool", Tags("-,x", "", "")) >>]

\* A timestamp between two text fields.
eventItem ==
    [name |-> "eventItem",
     fields |-> << Field("Title", "string", "string", Tags("title", "", "")),
                   Field("When", "struct", "time.Time", Tags("when", "", "")),
                   Field("Note", "string", "string", Tags("note", "", "")) >>]

\* Numeric fields of several widths between two text fields.
numericItem ==
    [name |-> "numericItem",
     fields |-> << Field("Label", "string", "string", Tags("label", "", "")),
                   Field("Small", "int8", "int8", Tags("small", "", "")),
                   Field("Count", "uint", "uint", Tags("count", "", "")),
                   Field("Ratio", "float64", "float64", Tags("ratio", "", "")),
                   Field("Trailer", "string", "string", Tags("trailer", "", "")) >>]

\* The two widths of floating-point fields.
floatItem ==
    [name |-> "floatItem",
     fields |-> << Field("Half", "float32", "float32", Tags("half", "", "")),
                   Field("Whole", "float64", "float64", Tags("whole", "", "")) >>]

\* Fields whose types the type switch has no parsing rule for.
otherItem ==
    [name |-> "otherItem",
     fields |-> << Field("Any", "interface", "interface {}", Tags("any", "", "")),
                   Field("Inner", "struct", "decode.inner", Tags("inner", "", "")),
                   Field("Floats", "slice", "[]float64", Tags("floats", "", "")),
                   Field("Attrs", "map", "map[string]string", Tags("attrs", "", "")),
                   Field("Ref", "ptr", "*int", Tags("ref", "", "")),
                   [Field("Base", "struct", "decode.Base", Tags("base", "", ""))
                        EXCEPT !.anonymous = TRUE],
                   Field("Reader", "interface", "io.Reader", Tags("reader", "", "")),
                   Field("Tail", "string", "string", Tags("tail", "", "")) >>]

\* kit.go, MagicDecoder: the User of "var user User", with the tags of the
\* README's struct.
user ==
    [name |-> "user",
     fields |-> << Field("ID", "int", "int", Tags("", "id", "")),
                   Field("Name", "string", "string", Tags("name", "", "")) >>]

(***************************************************************************)
(* Maps.                                                                   *)
(***************************************************************************)
NilMap == [isNil |-> TRUE, m |-> <<>>]
EmptyMap == [isNil |-> FALSE, m |-> <<>>]
MakeMap(m) == [isNil |-> FALSE, m |-> m]

\* form[key]: the zero value "" when the key is absent (or the map is nil).
MapGet(form, key) ==
    IF ~form.isNil /\ key \in DOMAIN form.m THEN form.m[key] ELSE ""

(***************************************************************************)
(* The destination argument (container interface{}).  The model keeps one  *)
(* struct, of type objT and value objV; the argument is one of             *)
(*   "nil"           the nil interface                                     *)
(*   "structPtr"     a pointer to that struct                              *)
(*   "nilStructPtr"  a nil pointer of that pointer type                    *)
(*   "struct"        the struct passed by value (a copy)                   *)
(*   "intPtr"        a pointer to an int                                   *)
(*   "string"        a string                                              *)
(***************************************************************************)
\* reflect.TypeOf(container), as far as isStructPtr reads it.
TypeOf(container) ==
    CASE container \in {"structPtr", "nilStructPtr"} ->
             [kind |-> "ptr", elem |-> "struct"]
      [] container = "intPtr" -> [kind |-> "ptr", elem |-> "int"]
      [] container = "struct" -> [kind |-> "struct", elem |-> "none"]
      [] container = "string" -> [kind |-> "string", elem |-> "none"]
      [] OTHER -> [kind |-> "invalid", elem |-> "none"]

isStructPtr(t) == t.kind = "ptr" /\ t.elem = "struct"

\* The guard without the test of the type: container == nil only.
NotStructPtr_NilOnly(container) == container = "nil"

\* The guard of Magic and of ParseToStruct:
\*   container == nil || !isStructPtr(objT)
NotStructPtr(container) ==
    container = "nil" \/ ~isStructPtr(TypeOf(container))

TypeError == MkError("TypeError", "fmt.Errorf", "", "must be a struct pointer")

(***************************************************************************)
(* ParseToStruct: the type switch on one field.  Each operator returns     *)
(* [err, v]: the error the call returns at this field (NoError to go on)   *)
(* and the value the field holds afterwards.                               *)
(***************************************************************************)
\* The switch with a default that clears the field.
SwitchBool_DefaultFalse(old, low) ==
    IF low \in {"on", "1", "yes", "true"} THEN [err |-> NoError, v |-> TRUE]
    ELSE [err |-> NoError, v |-> FALSE]

\* case reflect.Bool
\* switch strings.ToLower(value), low the lowered text
SwitchBool(old, low) ==
    IF low \in {"on", "1", "yes", "true"} THEN [err |-> NoError, v |-> TRUE]
    ELSE IF low \in {"off", "0", "no", "false"} THEN [err |-> NoError, v |-> FALSE]
    ELSE [err |-> NoError, v |-> old]

CoerceBool(old, value) == SwitchBool(old, ToLower(value))

KindBits(kind) ==
    CASE kind \in {"int8", "uint8"} -> 8
      [] kind \in {"int16", "uint16"} -> 16
      [] kind \in {"int32", "uint32"} -> 32
      [] OTHER -> 64

\* case reflect.Int, Int8, Int16, Int32, Int64: fieldV.SetInt(x) stores
\* int8(x), int16(x) in the narrow kinds.  Every integer the model holds
\* fits 32 bits, so wider kinds store x as it is.
StoreInt(fieldT, old, r) ==
    IF r.err # NoError THEN [err |-> r.err, v |-> old]
    ELSE [err |-> NoError,
          v |-> IF KindBits(fieldT.kind) >= 32 THEN r.x
                ELSE ((r.x + 2^(KindBits(fieldT.kind) - 1))
                      % 2^KindBits(fieldT.kind))
                     - 2^(KindBits(fieldT.kind) - 1)]

CoerceInt(fieldT, old, value) == StoreInt(fieldT, old, ParseInt(value))

\* case reflect.Uint, Uint8, Uint16, Uint32, Uint64: fieldV.SetUint(x)
\* stores uint8(x), uint16(x) in the narrow kinds.
StoreUint(fieldT, old, r) ==
    IF r.err # NoError THEN [err |-> r.err, v |-> old]
    ELSE [err |-> NoError,
          v |-> IF KindBits(fieldT.kind) >= 32 THEN r.x
                ELSE r.x % 2^KindBits(fieldT.kind)]

CoerceUint(fieldT, old, value) == StoreUint(fieldT, old, ParseUint(value))

\* case reflect.Float32, Float64: x, err := strconv.ParseFloat(value, 64),
\* r here; fieldV.SetFloat(x) stores float32(x) in a float32 field, which is
\* the float64 x rounded once more (an infinity beyond the range of
\* float32, without an error).
StoreFloat(fieldT, old, r) ==
    IF r.err # NoError THEN [err |-> r.err, v |-> old]
    ELSE [err |-> NoError,
          v |-> IF fieldT.kind = "float32"
                THEN Narrowed("", 32, Narrowed("", 64, r)).x
                ELSE r.x]

CoerceFloat(fieldT, old, value) ==
    StoreFloat(fieldT, old, ParseFloat(value, 64))

\* case reflect.Interface: fieldV.Set(reflect.ValueOf(value)) panics unless a
\* string is assignable to the field's interface type.
CoerceInterface(fieldT, old, value) ==
    IF fieldT.type = "interface {}"
    THEN [err |-> NoError, v |-> StringInterface(value)]
    ELSE [err |-> MkError("panic", "reflect.Set", value,
                          "value of type string is not assignable"),
          v |-> old]

\* The lengths that select a timestamp format.
LenRFC3339  == 25
LenDateTime == 19
LenDate     == 10
LenTime     == 8

\* A timestamp parser that falls back on the time of day when the format of
\* the length class fails.
RetryAsTime(value, r) ==
    IF r.err # NoError /\ Len(value) >= LenTime
    THEN ParseInLocation(formatTime, SubSeq(value, 1, LenTime))
    ELSE r

ParseTimestamp_Fallback(value) ==
    RetryAsTime(value,
        IF Len(value) >= LenRFC3339
        THEN ParseInLocation(RFC3339, SubSeq(value, 1, LenRFC3339))
        ELSE IF Len(value) >= LenDateTime
             THEN IF Contains(value, "T")
                  THEN ParseInLocation(formatDateTimeT, SubSeq(value, 1, LenDateTime))
                  ELSE ParseInLocation(formatDateTime, SubSeq(value, 1, LenDateTime))
        ELSE IF Len(value) >= LenDate
             THEN ParseInLocation(formatDate, SubSeq(value, 1, LenDate))
        ELSE IF Len(value) >= LenTime
             THEN ParseInLocation(formatTime, SubSeq(value, 1, LenTime))
        ELSE [err |-> NoError, t |-> ZeroTime])

\* case "time.Time": the format chosen by the length of the text, then the
\* parse of the truncated text: [err, t], t the zero time when none applies.
ParseTimestamp(value) ==
    IF Len(value) >= LenRFC3339
    THEN ParseInLocation(RFC3339, SubSeq(value, 1, LenRFC3339))
    ELSE IF Len(value) >= LenDateTime
         THEN IF Contains(value, "T")
              THEN ParseInLocation(formatDateTimeT, SubSeq(value, 1, LenDateTime))
              ELSE ParseInLocation(formatDateTime, SubSeq(value, 1, LenDateTime))
    ELSE IF Len(value) >= LenDate
         THEN ParseInLocation(formatDate, SubSeq(value, 1, LenDate))
    ELSE IF Len(value) >= LenTime
         THEN ParseInLocation(formatTime, SubSeq(value, 1, LenTime))
    ELSE [err |-> NoError, t |-> ZeroTime]

\* case reflect.Struct
\* if err != nil { return err }; fieldV.Set(reflect.ValueOf(t))
StoreTime(old, r) ==
    IF r.err # NoError THEN [err |-> r.err, v |-> old]
    ELSE [err |-> NoError, v |-> r.t]

CoerceStruct(fieldT, old, value) ==
    IF fieldT.type = "time.Time" THEN StoreTime(old, ParseTimestamp(value))
    ELSE [err |-> NoError, v |-> old]

RECURSIVE FillInts(_, _, _)
\* val, err := strconv.Atoi(formVals[i]) gave r.
StoreElem(formVals, i, slice, r) ==
    IF r.err # NoError THEN [err |-> r.err, v |-> slice]
    ELSE FillInts(formVals, i + 1, [slice EXCEPT ![i] = r.x])

\* The loop over formVals of the []int case, from index i on a slice that
\* reflect.MakeSlice filled with zeros.
FillInts(formVals, i, slice) ==
    IF i > Len(formVals) THEN [err |-> NoError, v |-> slice]
    ELSE StoreElem(formVals, i, slice, Atoi(formVals[i]))

\* The []int case assigning the slice to the field after the loop only, so
\* that an error leaves the field as it was.
SetSlice_AssignAfterLoop(fieldT, old, formVals) ==
    IF fieldT.type = "[]int"
    THEN IF FillInts(formVals, 1, [i \in 1..Len(formVals) |-> 0]).err # NoError
         THEN [err |-> FillInts(formVals, 1, [i \in 1..Len(formVals) |-> 0]).err,
               v |-> old]
         ELSE FillInts(formVals, 1, [i \in 1..Len(formVals) |-> 0])
    ELSE IF fieldT.type = "[]string"
         THEN [err |-> NoError, v |-> formVals]
    ELSE [err |-> NoError, v |-> old]

\* The slice cases taking every slice that is no []int for a []string.
SetSlice_EverySlice(fieldT, old, formVals) ==
    IF fieldT.type = "[]int"
    THEN FillInts(formVals, 1, [i \in 1..Len(formVals) |-> 0])
    ELSE [err |-> NoError, v |-> formVals]

\* The slice cases on the pieces formVals of the text.
SetSlice(fieldT, old, formVals) ==
    IF fieldT.type = "[]int"
    THEN FillInts(formVals, 1, [i \in 1..Len(formVals) |-> 0])
    ELSE IF fieldT.type = "[]string"
         THEN [err |-> NoError, v |-> formVals]
    ELSE [err |-> NoError, v |-> old]

\* case reflect.Slice
CoerceSlice(fieldT, old, value) == SetSlice(fieldT, old, Split(value, ","))

\* switch fieldT.Type.Kind()
Coerce(fieldT, old, value) ==
    CASE fieldT.kind = "bool" -> CoerceBool(old, value)
      [] fieldT.kind \in SignedKinds -> CoerceInt(fieldT, old, value)
      [] fieldT.kind \in UnsignedKinds -> CoerceUint(fieldT, old, value)
      [] fieldT.kind \in FloatKinds -> CoerceFloat(fieldT, old, value)
      [] fieldT.kind = "interface" -> CoerceInterface(fieldT, old, value)
      [] fieldT.kind = "string" -> [err |-> NoError, v |-> value]
      [] fieldT.kind = "struct" -> CoerceStruct(fieldT, old, value)
      [] fieldT.kind = "slice" -> CoerceSlice(fieldT, old, value)
      [] OTHER -> [err |-> NoError, v |-> old]

\* tags[0] without the test for "-".
FirstTag_DashIsAName(tags) ==
    IF Len(tags) = 0 \/ Len(tags[1]) = 0 THEN "" ELSE tags[1]

\* tags[0], or "" when the field is skipped (no tag, empty name or "-").
FirstTag(tags) ==
    IF Len(tags) = 0 \/ Len(tags[1]) = 0 THEN ""
    ELSE IF tags[1] = "-" THEN ""
    ELSE tags[1]

\* The name a field is bound by in a namespace: the tag up to the first
\* comma.
TagName(fieldT, structTag) == FirstTag(Split(TagGet(fieldT, structTag), ","))

\* A binding that keeps the value a field holds already: the first decoder
\* to bind a field wins.
BindValue_KeepFirst(fieldT, old, value) ==
    IF value = "" \/ old # ZeroValue(fieldT) THEN [err |-> NoError, v |-> old]
    ELSE Coerce(fieldT, old, value)

\* A binding in which the empty text clears the field.
BindValue_EmptyClears(fieldT, old, value) ==
    IF value = "" THEN [err |-> NoError, v |-> ZeroValue(fieldT)]
    ELSE Coerce(fieldT, old, value)

\* value := form[tag]; if value == "" { continue }; switch ...
BindValue(fieldT, old, value) ==
    IF value = "" THEN [err |-> NoError, v |-> old]
    ELSE Coerce(fieldT, old, value)

BindTag(form, fieldT, old, tag) ==
    IF tag = "" THEN [err |-> NoError, v |-> old]
    ELSE BindValue(fieldT, old, MapGet(form, tag))

\* The body of the loop over the fields, for one field.
ParseField(structTag, form, fieldT, old) ==
    IF ~fieldT.exported THEN [err |-> NoError, v |-> old]
    ELSE IF fieldT.anonymous /\ fieldT.kind = "struct"
         THEN [err |-> NoError, v |-> old]
    ELSE BindTag(form, fieldT, old, TagName(fieldT, structTag))

RECURSIVE ParseFields(_, _, _, _, _)
\* The loop without its return: an error at field i is dropped and the
\* next field is examined.
FieldDone_KeepGoing(i, structTag, form, t, v, r) ==
    ParseFields(i + 1, structTag, form, t, [v EXCEPT ![i] = r.v])

\* The loop after the body gave r for field i: return at an error, else go
\* on to field i + 1.
FieldDone(i, structTag, form, t, v, r) ==
    IF r.err # NoError THEN [err |-> r.err, objV |-> [v EXCEPT ![i] = r.v]]
    ELSE ParseFields(i + 1, structTag, form, t, [v EXCEPT ![i] = r.v])

\* for i := 0; i < objT.NumField(); i++, from field i on: [err, objV].
ParseFields(i, structTag, form, t, v) ==
    IF i > Len(t.fields) THEN [err |-> NoError, objV |-> v]
    ELSE FieldDone(i, structTag, form, t, v,
                   ParseField(structTag, form, t.fields[i], v[i]))

\* ParseToStruct without the return for a nil form.
ParseToStruct_NoNilForm(structTag, form, container, t, v) ==
    IF NotStructPtr(container) THEN [err |-> TypeError, objV |-> v]
    ELSE IF container = "nilStructPtr" /\ Len(t.fields) # 0
         THEN [err |-> MkError("panic", "reflect.Value.Field", "",
                               "call of Field on zero Value"),
               objV |-> v]
    ELSE ParseFields(1, structTag, form, t, v)

\* ParseToStruct(structTag, form, container) on the struct of type t and
\* value v: [err, objV], objV the value of the struct afterwards.
ParseToStruct(structTag, form, container, t, v) ==
    IF form.isNil THEN [err |-> NoError, objV |-> v]
    ELSE IF NotStructPtr(container) THEN [err |-> TypeError, objV |-> v]
    ELSE IF container = "nilStructPtr"
         THEN \* objV.Elem() is the zero Value: Field(0) panics
              IF Len(t.fields) = 0 THEN [err |-> NoError, objV |-> v]
              ELSE [err |-> MkError("panic", "reflect.Value.Field", "",
                                    "call of Field on zero Value"),
                    objV |-> v]
    ELSE ParseFields(1, structTag, form, t, v)

(***************************************************************************)
(* Requests.  A request is [vars, chi, query, body]:                       *)
(*   vars   what mux.Vars(r) returns: a map, nil when the route set none   *)
(*   chi    chi.RouteContext: [isNil, keys, values], URLParams' two slices *)
(*   query  the query string as a sequence of <<key, value>> pairs         *)
(*   body   [isNil, bad, v]: no body (r.Body is nil); or a body whose      *)
(*          first JSON value cannot be read, bad being "syntax", or "EOF"  *)
(*          when nothing is left to read; or a body whose first JSON value *)
(*          is v                                                           *)
(***************************************************************************)
Range(seq) == {seq[i] : i \in 1..Len(seq)}

NoChi == [isNil |-> TRUE, keys |-> <<>>, values |-> <<>>]
Chi(keys, values) == [isNil |-> FALSE, keys |-> keys, values |-> values]

\* A JSON value, and the key k it has as a member of an object: see JSON
\* below.
Json(k, t, s, a) == [k |-> k, t |-> t, s |-> s, a |-> a]

NoBody == [isNil |-> TRUE, bad |-> "", v |-> Json("", "null", "", <<>>)]
BadBody(why) == [isNil |-> FALSE, bad |-> why, v |-> Json("", "null", "", <<>>)]
Body(v) == [isNil |-> FALSE, bad |-> "", v |-> v]

\* The loop of ChiRouter: values[k] = rctx.URLParams.Values[i], a later
\* entry of the same key replacing an earlier one.
ChiValues(chi) ==
    MakeMap([k \in Range(chi.keys) |->
                chi.values[CHOOSE i \in 1..Len(chi.keys) :
                              /\ chi.keys[i] = k
                              /\ \A j \in (i + 1)..Len(chi.keys) : chi.keys[j] # k]])

\* The loop of QueryParams: values[k] = items.Get(k), the first value of k.
QueryValues(query) ==
    MakeMap([k \in {query[i][1] : i \in 1..Len(query)} |->
                query[CHOOSE i \in 1..Len(query) :
                         /\ query[i][1] = k
                         /\ \A j \in 1..(i - 1) : query[j][1] # k][2]])

\* MuxRouter(container, r)
MuxRouter(container, r, t, v) ==
    ParseToStruct("path", r.vars, container, t, v)

\* ChiRouter(container, r)
ChiRouter(container, r, t, v) ==
    IF r.chi.isNil THEN [err |-> NoError, objV |-> v]
    ELSE ParseToStruct("path", ChiValues(r.chi), container, t, v)

\* QueryParams(container, r)
QueryParams(container, r, t, v) ==
    ParseToStruct("form", QueryValues(r.query), container, t, v)

(***************************************************************************)
(* JSON(container, r): encoding/json's Decoder.Decode on the body.  A JSON *)
(* value is [k, t, s, a]: t is "null", "bool", "number", "string", "array" *)
(* or "object"; s is the text of a bool or a number and the content of a   *)
(* string (written without escapes); a is the sequence of an array's       *)
(* elements or of an object's members, in the order of the document; k is  *)
(* the key of a member of an object ("" elsewhere).  The struct types of   *)
(* the model carry valid names in their json tags and no option after      *)
(* them.                                                                   *)
(***************************************************************************)
\* The key a field is decoded from: its json tag name, else its own name.
JsonName(fieldT) ==
    LET n == Split(TagGet(fieldT, "json"), ",")[1]
    IN  IF n = "" THEN fieldT.name ELSE n

RECURSIVE foldName(_)
\* json.foldName, as far as two folded names are compared: letters that
\* differ in case only are made the same (the long s is an s and the kelvin
\* sign a k; no other letter outside ASCII is equivalent to an ASCII one,
\* and the model keeps those).
foldName(key) ==
    IF key = "" THEN ""
    ELSE IF Len(key) >= 2 /\ SubSeq(key, 1, 2) = "Å¿"
         THEN "s" \o foldName(SubSeq(key, 3, Len(key)))
    ELSE IF Len(key) >= 3 /\ SubSeq(key, 1, 3) = "âª"
         THEN "k" \o foldName(SubSeq(key, 4, Len(key)))
    ELSE LowerChar(Head(key)) \o foldName(Tail(key))

\* json.typeFields: the fields of struct type t encoding/json decodes into,
\* as [i, name, fold]: field i under its JSON name and the folded name.
\* They are the exported fields whose tag is not "-"; an untagged embedded
\* struct gives its own fields in its place (of decode.Base: none); of
\* several fields with one name the only tagged one counts, if there is one.
typeFields(t) ==
    LET all == {[i |-> i, name |-> JsonName(t.fields[i]),
                 tagged |-> Split(TagGet(t.fields[i], "json"), ",")[1] # ""] :
                   i \in {j \in 1..Len(t.fields) :
                            /\ t.fields[j].exported
                            /\ TagGet(t.fields[j], "json") # "-"}}
    IN  {[i |-> f.i, name |-> f.name, fold |-> foldName(f.name)] :
           f \in {g \in all :
                    /\ ~(t.fields[g.i].anonymous /\ t.fields[g.i].kind = "struct"
                         /\ ~g.tagged)
                    /\ \A h \in all \ {g} :
                          h.name = g.name => g.tagged /\ ~h.tagged}}

\* The field a member named key is decoded into (0: none), fs being the
\* fields of the struct type: the field whose name is the key, else the
\* first one whose name is the key but for the case of letters.
FieldFor(fs, key) ==
    LET exact == {f \in fs : f.name = key}
        fold == foldName(key)
        folded == {f.i : f \in {g \in fs : g.fold = fold}}
    IN  IF exact # {} THEN (CHOOSE f \in exact : TRUE).i
        ELSE IF folded # {} THEN CHOOSE i \in folded : \A j \in folded : i <= j
        ELSE 0

\* reflect.Value.OverflowInt / OverflowUint do not report x.
FitsKind(kind, x) ==
    CASE kind = "int8"   -> -128 <= x /\ x <= 127
      [] kind = "int16"  -> -32768 <= x /\ x <= 32767
      [] kind = "uint8"  -> 0 <= x /\ x <= 255
      [] kind = "uint16" -> 0 <= x /\ x <= 65535
      [] OTHER -> TRUE

\* An *json.UnmarshalTypeError: the decoder keeps the first one, goes on and
\* returns it at the end.
JsonTypeError == MkError("Body", "json.Decode", "", "type")

\* The float64 a JSON number gives in an interface{}, r being what
\* ParseFloat returned for its text.
FloatInterface(r) ==
    IF r.err # NoError THEN [ok |-> FALSE, v |-> NilInterface]
    ELSE [ok |-> TRUE,
          v |-> [set |-> TRUE, t |-> "float64", s |-> "", a |-> <<r.x>>]]

RECURSIVE Dynamic(_)
\* The value a JSON value gives in an interface{}: [ok, v], v the interface
\* value and ok unless a number in it is out of the range of float64 (a nil
\* takes its place in an array or a map).
Dynamic(jv) ==
    CASE jv.t = "null" -> [ok |-> TRUE, v |-> NilInterface]
      [] jv.t = "string" -> [ok |-> TRUE, v |-> StringInterface(jv.s)]
      [] jv.t = "bool" ->
           [ok |-> TRUE,
            v |-> [set |-> TRUE, t |-> "bool", s |-> jv.s, a |-> <<>>]]
      [] jv.t = "number" -> FloatInterface(ParseFloat(jv.s, 64))
      [] jv.t = "array" ->
           [ok |-> \A i \in 1..Len(jv.a) : Dynamic(jv.a[i]).ok,
            v |-> [set |-> TRUE, t |-> "[]interface {}", s |-> "",
                   a |-> [i \in 1..Len(jv.a) |-> Dynamic(jv.a[i]).v]]]
      [] jv.t = "object" ->
           [ok |-> \A i \in 1..Len(jv.a) : Dynamic(jv.a[i]).ok,
            v |-> [set |-> TRUE, t |-> "map[string]interface {}", s |-> "",
                   a |-> << [k \in {jv.a[i].k : i \in 1..Len(jv.a)} |->
                               Dynamic(jv.a[CHOOSE i \in 1..Len(jv.a) :
                                   /\ jv.a[i].k = k
                                   /\ \A j \in (i + 1)..Len(jv.a) :
                                         jv.a[j].k # k]).v] >>]]

RECURSIVE JsonInto(_, _, _)
\* The JSON value jv into a variable of type fieldT holding old, p being
\* what the text or the value of jv was converted to: [err, v].
JsonStore(fieldT, old, jv, p) ==
    CASE fieldT.type = "time.Time" ->
           \* Time.UnmarshalJSON
           IF jv.t = "null" THEN [err |-> NoError, v |-> old]
           ELSE IF jv.t # "string"
                THEN [err |-> MkError("Body", "Time.UnmarshalJSON", "",
                                      "input is not a JSON string"),
                      v |-> old]
           ELSE [err |-> p.err, v |-> p.t]
      [] fieldT.type # "time.Time" /\ jv.t = "null" ->
           [err |-> NoError,
            v |-> IF fieldT.kind \in {"interface", "ptr", "map", "slice"}
                  THEN ZeroValue(fieldT) ELSE old]
      [] fieldT.kind = "ptr" /\ jv.t # "null" ->
           \* a nil pointer is made to point at a new variable first
           [err |-> p.err, v |-> <<p.v>>]
      [] fieldT.kind = "interface" /\ jv.t # "null" ->
           IF fieldT.type # "interface {}"
           THEN [err |-> JsonTypeError, v |-> old]
           \* a number that convertNumber rejects is not stored
           ELSE [err |-> IF p.ok THEN NoError ELSE JsonTypeError,
                 v |-> IF jv.t = "number" /\ ~p.ok THEN old ELSE p.v]
      [] fieldT.kind = "string" /\ jv.t # "null" ->
           IF jv.t = "string" THEN [err |-> NoError, v |-> jv.s]
           ELSE [err |-> JsonTypeError, v |-> old]
      [] fieldT.kind = "bool" /\ jv.t # "null" ->
           IF jv.t = "bool" THEN [err |-> NoError, v |-> (jv.s = "true")]
           ELSE [err |-> JsonTypeError, v |-> old]
      [] fieldT.kind \in SignedKinds \cup UnsignedKinds \cup FloatKinds
         /\ jv.t # "null" ->
           IF jv.t = "number" /\ p.err = NoError /\ FitsKind(fieldT.kind, p.x)
           THEN [err |-> NoError, v |-> p.x]
           ELSE [err |-> JsonTypeError, v |-> old]
      [] fieldT.kind = "slice" /\ jv.t # "null" ->
           \* element i is decoded into the element the slice holds there,
           \* or into a zero element past its end
           IF jv.t # "array" THEN [err |-> JsonTypeError, v |-> old]
           ELSE [err |-> IF \A i \in 1..Len(p) : p[i].err = NoError
                         THEN NoError ELSE JsonTypeError,
                 v |-> [i \in 1..Len(p) |-> p[i].v]]
      [] fieldT.kind = "map" /\ jv.t # "null" ->
           \* every member is decoded into a zero element, which is stored
           \* under the member's key
           IF jv.t # "object" THEN [err |-> JsonTypeError, v |-> old]
           ELSE [err |-> IF \A i \in 1..Len(p) : p[i].err = NoError
                         THEN NoError ELSE JsonTypeError,
                 v |-> MakeMap([k \in {jv.a[i].k : i \in 1..Len(jv.a)}
                                       \cup DOMAIN old.m |->
                                  IF \E i \in 1..Len(jv.a) : jv.a[i].k = k
                                  THEN p[CHOOSE i \in 1..Len(jv.a) :
                                            /\ jv.a[i].k = k
                                            /\ \A j \in (i + 1)..Len(jv.a) :
                                                  jv.a[j].k # k].v
                                  ELSE old.m[k]])]
      [] fieldT.kind = "struct" /\ fieldT.type # "time.Time" /\ jv.t # "null" ->
           \* a struct type without exported fields: no member is decoded
           IF jv.t = "object" THEN [err |-> NoError, v |-> old]
           ELSE [err |-> JsonTypeError, v |-> old]

\* One JSON value into a variable of type fieldT ([kind, type]) holding old:
\* [err, v].  After a JsonTypeError the decoder goes on; any other error
\* ends the call.  (Slices, maps and pointers of the model hold basic
\* types, whose decoding never ends the call.)
JsonInto(fieldT, old, jv) ==
    JsonStore(fieldT, old, jv,
        CASE fieldT.type = "time.Time" -> ParseInLocation(RFC3339, jv.s)
          [] fieldT.kind \in SignedKinds -> ParseInt(jv.s)
          [] fieldT.kind \in UnsignedKinds -> ParseUint(jv.s)
          [] fieldT.kind \in FloatKinds ->
               ParseFloat(jv.s, IF fieldT.kind = "float32" THEN 32 ELSE 64)
          [] fieldT.kind = "interface" -> Dynamic(jv)
          [] fieldT.kind = "ptr" ->
               JsonInto(ElemType(fieldT),
                        IF old = <<>> THEN ZeroValue(ElemType(fieldT))
                        ELSE old[1],
                        jv)
          [] fieldT.kind \in {"slice", "map"} ->
               [i \in 1..Len(jv.a) |->
                   JsonInto(ElemType(fieldT),
                            IF fieldT.kind = "slice" /\ i <= Len(old)
                            THEN old[i] ELSE ZeroValue(ElemType(fieldT)),
                            jv.a[i])]
          [] OTHER -> NoError)

RECURSIVE JsonMembers(_, _, _, _, _, _)
\* Member k of the object was decoded into field i, d being what the
\* decoding returned.
JsonStored(t, fs, v, members, k, err, i, d) ==
    IF d.err \notin {NoError, JsonTypeError}
    THEN [err |-> d.err, objV |-> [v EXCEPT ![i] = d.v]]
    ELSE JsonMembers(t, fs, [v EXCEPT ![i] = d.v], members, k + 1,
                     IF err = NoError THEN d.err ELSE err)

\* Member k of the object belongs to field i (0: to none, and it is passed
\* over).
JsonMember(t, fs, v, members, k, err, i) ==
    IF i = 0 THEN JsonMembers(t, fs, v, members, k + 1, err)
    ELSE JsonStored(t, fs, v, members, k, err, i,
                    JsonInto(t.fields[i], v[i], members[k]))

\* The members of an object into the struct of type t and fields fs, from
\* member k on, in the order of the document; err is the error kept so far.
JsonMembers(t, fs, v, members, k, err) ==
    IF k > Len(members) THEN [err |-> err, objV |-> v]
    ELSE JsonMember(t, fs, v, members, k, err, FieldFor(fs, members[k].k))

\* JSON(container, r): the body's first JSON value is read whole, then the
\* destination is tested (json.InvalidUnmarshalError for all but a pointer
\* that is not nil), then the value is decoded into what it points at.
JSON(container, r, t, v) ==
    IF r.body.isNil
    THEN [err |-> MkError("Body", "JSON", "", "empty request body"), objV |-> v]
    ELSE IF r.body.bad # ""
         THEN [err |-> MkError("Body", "json.Decode", "", r.body.bad), objV |-> v]
    ELSE IF container \notin {"structPtr", "intPtr"}
         THEN [err |-> MkError("Body", "json.Decode", "", "invalid target"),
               objV |-> v]
    ELSE IF container = "intPtr"
         THEN [err |-> JsonInto([kind |-> "int", type |-> "int"], 0,
                                r.body.v).err,
               objV |-> v]
    ELSE IF r.body.v.t = "null" THEN [err |-> NoError, objV |-> v]
    ELSE IF r.body.v.t # "object" THEN [err |-> JsonTypeError, objV |-> v]
    ELSE JsonMembers(t, typeFields(t), v, r.body.v.a, 1, NoError)

(***************************************************************************)
(* Decoders and the pipeline runner.  A decoder is [fn, fields]: fn names  *)
(* the function ("nil" for a nil entry of the list).                       *)
(***************************************************************************)
Decoder(fn) == [fn |-> fn, fields |-> <<>>]

\* A decoder the sub-package builds from the keys to read: ChiRouter(fields),
\* QueryParams(fields).
DecoderOf(fn, fields) == [fn |-> fn, fields |-> fields]

\* chi.URLParam(r, k): the last value of key k in the route context, "" when
\* the request has no route context or the context has no such key.
URLParam(chi, k) ==
    IF chi.isNil \/ k \notin Range(chi.keys) THEN ""
    ELSE chi.values[CHOOSE i \in 1..Len(chi.keys) :
                       /\ chi.keys[i] = k
                       /\ \A j \in (i + 1)..Len(chi.keys) : chi.keys[j] # k]

\* r.URL.Query().Get(k): the first value of key k, "" when there is none.
QueryGet(query, k) ==
    IF \A i \in 1..Len(query) : query[i][1] # k THEN ""
    ELSE query[CHOOSE i \in 1..Len(query) :
                  /\ query[i][1] = k
                  /\ \A j \in 1..(i - 1) : query[j][1] # k][2]

\* decode.ChiRouter(fields)(container, r) of the sub-package
ChiRouterFields(fields, container, r, t, v) ==
    ParseToStruct("path", MakeMap([k \in Range(fields) |-> URLParam(r.chi, k)]),
                  container, t, v)

\* decode.QueryParams(fields)(container, r) of the sub-package
QueryParamsFields(fields, container, r, t, v) ==
    ParseToStruct("path", MakeMap([k \in Range(fields) |-> QueryGet(r.query, k)]),
                  container, t, v)

\* decoder(container, r)
RunDecoder(decoder, container, r, t, v) ==
    CASE decoder.fn = "MuxRouter"   -> MuxRouter(container, r, t, v)
      [] decoder.fn = "ChiRouter"   -> ChiRouter(container, r, t, v)
      [] decoder.fn = "QueryParams" -> QueryParams(container, r, t, v)
      [] decoder.fn = "JSON"        -> JSON(container, r, t, v)
      [] decoder.fn = "ChiRouterFields" ->
             ChiRouterFields(decoder.fields, container, r, t, v)
      [] decoder.fn = "QueryParamsFields" ->
             QueryParamsFields(decoder.fields, container, r, t, v)

\* The request after a decoder ran on it: json.NewDecoder reads the whole
\* body (a body of the model fits the decoder's buffer) and keeps what it
\* read, so nothing is left for a later reader.
Drained(decoder, r) ==
    IF decoder.fn = "JSON" /\ ~r.body.isNil
    THEN [r EXCEPT !.body = BadBody("EOF")]
    ELSE r

RECURSIVE MagicLoop(_, _, _, _, _, _, _)
\* The loop without its return: an error is recorded and the next decoder
\* runs.
DecoderDone_KeepGoing(decoders, i, container, r, t, log, d) ==
    MagicLoop(decoders, i + 1, container, Drained(decoders[i], r), t, d.objV,
              Append(log, [index |-> i, err |-> d.err, objV |-> d.objV]))

\* if err = decoder(container, r); err != nil { return err }, d being what
\* decoder i returned.
DecoderDone(decoders, i, container, r, t, log, d) ==
    IF d.err # NoError
    THEN [err |-> d.err, objV |-> d.objV,
          log |-> Append(log, [index |-> i, err |-> d.err, objV |-> d.objV])]
    ELSE MagicLoop(decoders, i + 1, container, Drained(decoders[i], r), t,
                   d.objV,
                   Append(log, [index |-> i, err |-> d.err, objV |-> d.objV]))

\* for _, decoder := range decoders, from entry i on.  log records every
\* decoder invocation: the entry's index, what it returned and the struct
\* as it left it.
MagicLoop(decoders, i, container, r, t, v, log) ==
    IF i > Len(decoders) THEN [err |-> NoError, objV |-> v, log |-> log]
    ELSE IF decoders[i].fn = "nil"
         THEN MagicLoop(decoders, i + 1, container, r, t, v, log)
    ELSE DecoderDone(decoders, i, container, r, t, log,
                     RunDecoder(decoders[i], container, r, t, v))

\* Magic(container, r, decoders...)
Magic(container, r, decoders, t, v) ==
    IF NotStructPtr(container)
    THEN [err |-> TypeError, objV |-> v, log |-> <<>>]
    ELSE MagicLoop(decoders, 1, container, r, t, v, <<>>)

(***************************************************************************)
(* The calls the model makes: for each struct type, the arguments of       *)
(* ParseToStruct and of Magic.                                             *)
(***************************************************************************)
Request(vars, chi, query, body) ==
    [vars |-> vars, chi |-> chi, query |-> query, body |-> body]

TimeTexts ==
    {"2023-05-01T10:20:30+02:00", "2023-05-01T10:20:30.1234Z",
     "2023-05-01T10:20:30-07:00 and more", "2023-05-01T10:20:30Z-extra",
     "2023-05-01 10:20:30+02:00", "2023-05-01T10:20:30",
     "2023-05-01T10:20:30Z", "2023-02-30T10:20:30",
     "2023-05-01 10:20:30 T", "2023-05-01 10:20:30", "2023-05-01 10:20:30.5",
     "2023-05-01 10:20:3x", "2024-02-29",
     "2023-05-01", "2023-05-01T10:20:3", "10:20:30pm",
     "10:20:30", "1:20:30x", "10:20", "x",
     "2023-05-01T10:20:30+00:00", "2023-05-01T10:20:30+25:61", "1:04:0Ã©"}

\* A form that binds at least one field of the struct type in "form".
OneKey(name) ==
    CASE name \in {"item", "itemComplete", "skipItem", "user"} ->
             MakeMap([name |-> "foo"])
      [] name = "magicItem"   -> MakeMap([name |-> "bob", pet |-> "cat"])
      [] name = "eventItem"   -> MakeMap([when |-> "2023-05-01"])
      [] name = "numericItem" -> MakeMap([small |-> "5"])
      [] name = "floatItem"   -> MakeMap([half |-> "2.5"])
      [] name = "otherItem"   -> MakeMap([tail |-> "foo"])

FormsOf(name) ==
    CASE name = "item" ->
           {MakeMap([name |-> "foo"]),
            MakeMap([name |-> "foo", number |-> "2"]),
            MakeMap([name |-> "bar", Number |-> "7", Money |-> "1.5"]),
            MakeMap([name |-> "", number |-> "x"]),
            MakeMap(("-" :> "1") @@ ("" :> "2") @@ ("Number" :> "3"))}
      [] name = "itemComplete" ->
           {MakeMap([name |-> "foo"]),
            MakeMap([name |-> "foo", number |-> "2"]),
            MakeMap([name |-> "foo", number |-> "2", money |-> "12.30"]),
            MakeMap([name |-> "foo", number |-> "2", money |-> "12.30",
                     issafe |-> "on"]),
            MakeMap([friends |-> "Bob,Carl"]),
            MakeMap([name |-> "n", number |-> "2x", money |-> "1.5"]),
            MakeMap([name |-> "m", number |-> "-3", money |-> "1.5.2",
                     issafe |-> "on", friends |-> "Dan"])}
           \cup {MakeMap([name |-> "", number |-> "", money |-> "", issafe |-> "",
                          numbers |-> "", friends |-> ""])}
           \cup {MakeMap([issafe |-> b, friends |-> "Al"]) :
                   b \in {"on", "ON", "1", "yes", "True", "TRUE", "off", "0",
                          "No", "FALSE", "maybe", "2", " on"}}
           \cup {MakeMap([numbers |-> l, friends |-> "Ed,"]) :
                   l \in {"1,2,3,4", "1,2,3,", "7", "1,x,3", ",", "+1,-2",
                          "1,,3", "10,20,3.5"}}
      [] name = "magicItem" ->
           {MakeMap([name |-> "bob", pet |-> "cat"]),
            MakeMap([id |-> "2", pet |-> "dog"]),
            MakeMap([id |-> "x", pet |-> "dog"]),
            MakeMap([name |-> "amy", pet |-> "cat", age |-> "4x"])}
      [] name = "skipItem" ->
           {\* every key a tag of skipItem could be mistaken for
            MakeMap(("name" :> "n") @@ ("Name" :> "N") @@ ("number" :> "5")
                    @@ ("Number" :> "6") @@ ("Dash" :> "d") @@ ("-" :> "dash")
                    @@ ("Opt" :> "o") @@ ("omitempty" :> "o2") @@ ("" :> "empty")
                    @@ (",omitempty" :> "o3") @@ ("name,omitempty" :> "full")
                    @@ ("id" :> "3") @@ ("ID" :> "4") @@ ("secret" :> "s")
                    @@ ("DashOpt" :> "true") @@ ("x" :> "true")
                    @@ ("-,x" :> "true")),
            MakeMap([name |-> "other", id |-> "8"]),
            MakeMap(("-" :> "again") @@ ("Number" :> "9") @@ ("id" :> "bad"))}
      [] name = "eventItem" ->
           {MakeMap([title |-> "a", when |-> w, note |-> "b"]) : w \in TimeTexts}
           \cup {MakeMap([title |-> "", when |-> "", note |-> "e"]),
                 MakeMap([when |-> "2023-05-01 10:20:30"]),
                 MakeMap([title |-> "c", note |-> "d"])}
      [] name = "numericItem" ->
           {MakeMap([label |-> "L", small |-> "5", count |-> "3",
                     ratio |-> "1.5", trailer |-> "T"]),
            MakeMap([label |-> "M", small |-> "-7", count |-> "0018",
                     ratio |-> "-2e3", trailer |-> "U"]),
            MakeMap([label |-> "a", small |-> "x", count |-> "4",
                     ratio |-> "2.5", trailer |-> "t"]),
            MakeMap([label |-> "b", small |-> "1.5", count |-> "4",
                     ratio |-> "2.5", trailer |-> "t"]),
            MakeMap([label |-> "c", small |-> "9223372036854775808",
                     count |-> "4", trailer |-> "t"]),
            MakeMap([label |-> "d", small |-> "6", count |-> "-1",
                     ratio |-> "2.5", trailer |-> "t"]),
            MakeMap([label |-> "e", small |-> "6", count |-> "abc",
                     ratio |-> "2.5", trailer |-> "t"]),
            MakeMap([label |-> "f", small |-> "+8", count |-> "18446744073709551616",
                     ratio |-> "2.5", trailer |-> "t"]),
            MakeMap([label |-> "g", small |-> "9", count |-> "12",
                     ratio |-> "1e", trailer |-> "t"]),
            MakeMap([label |-> "h", small |-> "9", count |-> "12",
                     ratio |-> "1e400", trailer |-> "t"]),
            MakeMap([label |-> "i", small |-> "9", count |-> "12",
                     ratio |-> "0x", trailer |-> "t"]),
            MakeMap([label |-> "j", small |-> "10", count |-> "13",
                     ratio |-> "NaN", trailer |-> "v"]),
            MakeMap([label |-> "k", small |-> "300", count |-> "14",
                     ratio |-> ".5", trailer |-> "w"]),
            MakeMap([label |-> "l", small |-> "-128", count |-> "15",
                     ratio |-> "1_000.5", trailer |-> "x"]),
            MakeMap([label |-> "m", small |-> "127", count |-> "16",
                     ratio |-> "0x1p-2", trailer |-> "y"]),
            MakeMap([label |-> "n", small |-> "1_0", count |-> "17",
                     ratio |-> "1e-324", trailer |-> "y"]),
            MakeMap([ratio |-> "1.7976931348623159e308", trailer |-> "t"]),
            MakeMap([label |-> "", small |-> "", count |-> "", ratio |-> "",
                     trailer |-> "z"]),
            MakeMap([small |-> " 1", trailer |-> "t"]),
            MakeMap([count |-> "7 ", trailer |-> "t"]),
            MakeMap([ratio |-> "1,5", trailer |-> "t"])}
      [] name = "user" -> {MakeMap([name |-> "foo"])}
      [] name = "floatItem" ->
           {MakeMap([half |-> "0.1", whole |-> "0.1"]),
            MakeMap([half |-> "-16777217", whole |-> "-16777217"]),
            MakeMap([half |-> "1e39", whole |-> "1e39"]),
            MakeMap([half |-> "1e-46", whole |-> "1e-46"]),
            MakeMap([half |-> "16777217.0000000001",
                     whole |-> "16777217.0000000001"]),
            MakeMap([half |-> "1e400", whole |-> "2"])}
      [] name = "otherItem" ->
           {MakeMap([any |-> "a", inner |-> "i", floats |-> "1.5,2",
                     attrs |-> "k=v", ref |-> "7", base |-> "b", tail |-> "t"]),
            MakeMap([any |-> "b", tail |-> "u"]),
            MakeMap([inner |-> "2023-05-01", tail |-> "v"]),
            MakeMap([floats |-> "1,2,3", tail |-> "w"]),
            MakeMap([attrs |-> "x", ref |-> "y"]),
            MakeMap([any |-> "", tail |-> ""]),
            MakeMap([any |-> "c", reader |-> "r", tail |-> "z"]),
            MakeMap([base |-> "q", tail |-> "y"])}

\* The destinations other than a pointer to the struct; they are passed for
\* one struct type, the way the tests pass them.
OtherContainers(name) ==
    IF name = "item" THEN {"nil", "nilStructPtr", "struct", "intPtr", "string"}
    ELSE {}

ParseCalls(name) ==
    {[structTag |-> g, form |-> f, container |-> "structPtr"] :
        g \in IF name \in {"skipItem", "item"} THEN {"form", "path"} ELSE {"form"},
        f \in FormsOf(name) \cup {NilMap, EmptyMap}}
    \cup {[structTag |-> "form", form |-> f, container |-> c] :
            f \in {NilMap, EmptyMap, OneKey(name)},
            c \in OtherContainers(name)}

\* The bodies of the requests that carry nothing but a body and one query
\* value.
BodiesOf(name) ==
    LET null(k) == Json(k, "null", "", <<>>)
        str(k, x) == Json(k, "string", x, <<>>)
        num(k, x) == Json(k, "number", x, <<>>)
        bool(k, x) == Json(k, "bool", x, <<>>)
        arr(k, a) == Json(k, "array", "", a)
        obj(k, a) == Json(k, "object", "", a)
    IN  CASE name = "magicItem" ->
               {\* keys in another case, one field named twice, a key for a
                \* field without json tag, an unknown key and a null
                obj("", <<str("Name", "a"), num("MONEY", "1E2"), str("NAME", "b"),
                          num("id", "4"), bool("nick", "true"), null("pet"),
                          num("money", "2.5e-1")>>),
                \* a body that is no JSON object
                arr("", <<num("", "1")>>)}
          [] name = "item" ->
               {obj("", <<str("Name", "a"), num("number", "1"),
                          num("Money", "2")>>)}
          [] name = "itemComplete" ->
               {obj("", <<str("name", "ann"), num("number", "3"),
                          num("money", "1.5"), bool("issafe", "true"),
                          arr("numbers", <<num("", "1"), num("", "2"),
                                           num("", "3")>>),
                          arr("friends", <<str("", "bob"), str("", "carl")>>)>>),
                obj("", <<arr("numbers", <<num("", "4"), str("", "x"), null(""),
                                           num("", "2.5")>>),
                          str("friends", "bob"), str("issafe", "on"),
                          str("Number", "7"), num("money", "1e400")>>),
                obj("", <<arr("numbers", <<>>), null("friends"), null("name"),
                          bool("issafe", "false")>>),
                obj("", <<arr("numbers", <<num("", "4"), null("")>>)>>)}
          [] name = "skipItem" ->
               {obj("", <<str("Name", "n"), num("Number", "5"), str("Dash", "d"),
                          str("Opt", "o"), num("ID", "4"), str("secret", "s"),
                          bool("DashOpt", "true")>>)}
          [] name = "eventItem" ->
               {obj("", <<str("title", "t"),
                          str("when", "2023-05-01T10:20:30+00:00"),
                          str("note", "n")>>),
                obj("", <<str("when", "2023-05-01T1:20:30.5-07:00"),
                          num("title", "5")>>),
                obj("", <<str("title", "u"), str("when", "2023-05-01 10:20:30"),
                          str("note", "lost")>>),
                obj("", <<bool("title", "true"), num("when", "5"),
                          str("note", "lost")>>),
                obj("", <<null("when"), str("note", "kept")>>)}
          [] name = "numericItem" ->
               {obj("", <<num("small", "300"), num("count", "-1"),
                          str("ratio", "x"), str("label", "L")>>),
                obj("", <<num("small", "-128"), num("count", "18"),
                          num("ratio", "-2.5e3"), str("trailer", "T")>>),
                obj("", <<num("small", "1.0"), num("Å¿mall", "2")>>)}
          [] name = "floatItem" ->
               {obj("", <<num("half", "16777217.0000000001"),
                          num("whole", "16777217.0000000001")>>),
                obj("", <<num("half", "1e39"), num("whole", "1e39")>>),
                obj("", <<num("Half", "0.1"), num("Whole", "0.1")>>)}
          [] name = "otherItem" ->
               {obj("", <<arr("any", <<num("", "1"), str("", "a"),
                                       obj("", <<null("k"), bool("k", "true")>>)>>),
                          obj("inner", <<num("x", "1")>>),
                          arr("floats", <<num("", "1.5"), null("")>>),
                          obj("attrs", <<str("a", "b"), num("c", "5"),
                                         str("a", "z")>>),
                          num("ref", "7"), str("reader", "x"), str("tail", "t"),
                          num("Base", "1")>>),
                obj("", <<num("any", "1e400"), num("inner", "3"),
                          obj("floats", <<>>), arr("attrs", <<>>),
                          str("ref", "x"), null("reader")>>),
                obj("", <<null("any"), null("floats"), null("attrs"),
                          null("ref")>>)}
          [] OTHER -> {}

RequestsOf(name) ==
    IF name = "magicItem"
    THEN {\* TestMagic, "POST with route id"
          Request(NilMap, Chi(<<"id">>, <<"2">>), <<>>,
                  Body(Json("", "object", "",
                            << Json("money", "number", "12.34", <<>>) >>))),
          \* TestMagic, "GET with query param"
          Request(NilMap, Chi(<<"id">>, <<"2">>), << <<"pet", "cat">> >>, NoBody),
          \* TestMagic, "POST with query param and route id"
          Request(NilMap, Chi(<<"id">>, <<"2">>),
                  << <<"pet", "cat">>, <<"name", "bob">>, <<"id", "9">> >>,
                  Body(Json("", "object", "",
                            << Json("money", "string", "12.34", <<>>) >>))),
          \* a route variable that is no integer, and a field two sources bind
          Request(MakeMap([id |-> "7", pet |-> "owl"]),
                  Chi(<<"id", "pet">>, <<"x", "dog">>),
                  << <<"name", "bob">>, <<"pet", "cat">>, <<"age", "40">> >>,
                  Body(Json("", "object", "",
                            << Json("name", "string", "zed", <<>>),
                               Json("money", "number", "1.5", <<>>) >>))),
          \* a query value that is no integer, after a field another source bound
          Request(MakeMap([id |-> "5"]), Chi(<<"pet", "id", "id">>, <<"dog", "2", "3">>),
                  << <<"pet", "cat">>, <<"pet", "eel">>, <<"age", "4x">> >>,
                  Body(Json("", "object", "",
                            << Json("name", "string", "zed", <<>>),
                               Json("money", "string", "12.34", <<>>) >>)))}
    ELSE IF name = "user"
    THEN {Request(NilMap, Chi(<<"id">>, <<"2">>), << <<"name", "bob">> >>, NoBody),
          Request(NilMap, Chi(<<"id">>, <<"3">>), <<>>, NoBody),
          Request(NilMap, Chi(<<"id">>, <<"x">>), << <<"name", "amy">> >>, NoBody)}
    ELSE {Request(OneKey(name), Chi(<<>>, <<>>),
                  << <<k, OneKey(name).m[k]>> >>, NoBody) :
             k \in DOMAIN OneKey(name).m}

DecoderListsOf(name) ==
    IF name = "magicItem"
    THEN {<<>>, <<Decoder("nil"), Decoder("nil")>>,
          <<Decoder("ChiRouter"), Decoder("JSON")>>,
          <<Decoder("QueryParams"), Decoder("ChiRouter"), Decoder("JSON")>>,
          <<Decoder("ChiRouter"), Decoder("QueryParams")>>,
          <<Decoder("QueryParams"), Decoder("JSON")>>,
          <<Decoder("QueryParams"), Decoder("nil"), Decoder("JSON"), Decoder("MuxRouter")>>,
          <<Decoder("MuxRouter"), Decoder("nil"), Decoder("ChiRouter"),
            Decoder("QueryParams")>>,
          \* the decoders of the sub-package, after one of the root package
          <<Decoder("ChiRouter"),
            DecoderOf("QueryParamsFields", <<"id", "pet", "name">>)>>,
          <<Decoder("QueryParams"), Decoder("nil"),
            DecoderOf("ChiRouterFields", <<"id", "pet", "name">>)>>}
    ELSE {<<>>, <<Decoder("nil")>>, <<Decoder("QueryParams")>>,
          <<Decoder("MuxRouter"), Decoder("nil"), Decoder("JSON"), Decoder("QueryParams")>>}

MagicCalls(name) ==
    {[container |-> "structPtr", r |-> r, decoders |-> ds] :
        r \in RequestsOf(name), ds \in DecoderListsOf(name)}
    \cup {[container |-> "structPtr",
           r |-> Request(NilMap, NoChi,
                        << <<"name", "amy">>, <<"numbers", "7,8">> >>, b),
           decoders |-> ds] :
            b \in {Body(v) : v \in BodiesOf(name)}
                     \cup {BadBody("syntax"), BadBody("EOF")},
            ds \in {<<Decoder("QueryParams"), Decoder("JSON")>>,
                    <<Decoder("JSON"), Decoder("JSON")>>}}
    \cup {[container |-> c, r |-> r, decoders |-> ds] :
            c \in OtherContainers(name),
            r \in {CHOOSE q \in RequestsOf(name) : TRUE},
            ds \in {<<>>, <<Decoder("nil"), Decoder("nil")>>,
                    <<Decoder("QueryParams"), Decoder("JSON")>>}}

(***************************************************************************)
(* Package kit: MagicDecoder(in, out, decoders...) returns a go-kit        *)
(* decoder, a closure over in, out and decoders.                           *)
(***************************************************************************)
\* kit.MagicDecoder(in, out, decoders...): out is the value handed over at
\* this call.
MagicDecoder(in, out, decoders) ==
    [built |-> TRUE, in |-> in, out |-> out, decoders |-> decoders]

\* return out, err: m is what decode.Magic(in, r, decoders...) returned.
KitReturn(dec, m) ==
    [response |-> dec.out, err |-> m.err, objV |-> m.objV, log |-> m.log]

\* The go-kit decoder dec called with request r.
KitDecoder(dec, r, t, v) ==
    KitReturn(dec, Magic(dec.in, r, dec.decoders, t, v))

(***************************************************************************)
(* The state: one destination struct, and a record of the last call made   *)
(* on it.                                                                  *)
(***************************************************************************)
VARIABLES
    objT,    \* the struct type of the destination
    objV,    \* the value of the destination struct
    calls,   \* number of calls made so far
    last,    \* the last call: its arguments, what it returned (err, and
             \* response for a go-kit decoder), the struct before it
             \* (before) and, for Magic, the decoder invocations it made
             \* (log)
    kit      \* the go-kit decoder kit.MagicDecoder built, if any

vars == <<objT, objV, calls, last, kit>>

Init ==
    /\ objT \in {item, itemComplete, magicItem, skipItem, eventItem, numericItem,
                floatItem, otherItem, user}
    /\ objV = ZeroStruct(objT)
    /\ calls = 0
    /\ last = [op |-> "none", structTag |-> "", form |-> NilMap,
               container |-> "nil", r |-> Request(NilMap, NoChi, <<>>, NoBody), decoders |-> <<>>,
               err |-> NoError, before |-> ZeroStruct(objT), log |-> <<>>,
               response |-> <<>>]
    /\ kit = [built |-> FALSE, in |-> "nil", out |-> <<>>, decoders |-> <<>>]

\* ParseToStruct returns res to its caller.
ReturnParse(c, res) ==
    /\ objV' = res.objV
    /\ last' = [op |-> "ParseToStruct", structTag |-> c.structTag,
                form |-> c.form, container |-> c.container,
                r |-> Request(NilMap, NoChi, <<>>, NoBody), decoders |-> <<>>,
                err |-> res.err, before |-> objV, log |-> <<>>,
                response |-> <<>>]

\* A caller calls ParseToStruct(structTag, form, container).
CallParseToStruct ==
    /\ calls < MaxCalls
    /\ \E c \in ParseCalls(objT.name) :
          ReturnParse(c, ParseToStruct(c.structTag, c.form, c.container,
                                       objT, objV))
    /\ calls' = calls + 1
    /\ UNCHANGED <<objT, kit>>

\* Magic returns res to its caller.
ReturnMagic(c, res) ==
    /\ objV' = res.objV
    /\ last' = [op |-> "Magic", structTag |-> "", form |-> NilMap,
                container |-> c.container, r |-> c.r, decoders |-> c.decoders,
                err |-> res.err, before |-> objV, log |-> res.log,
                response |-> <<>>]

\* A caller calls Magic(container, r, decoders...).
CallMagic ==
    /\ calls < MaxCalls
    /\ \E c \in MagicCalls(objT.name) :
          ReturnMagic(c, Magic(c.container, c.r, c.decoders, objT, objV))
    /\ calls' = calls + 1
    /\ UNCHANGED <<objT, kit>>

\* A caller builds the go-kit decoder, once: kit.MagicDecoder(&user, user,
\* decoders...), user being the struct.
CallMagicDecoder ==
    /\ ~kit.built
    /\ objT.name = "user"
    /\ \E ds \in {<<Decoder("ChiRouter"), Decoder("QueryParams")>>,
                  <<Decoder("QueryParams"), Decoder("nil"), Decoder("ChiRouter")>>} :
          kit' = MagicDecoder("structPtr", objV, ds)
    /\ UNCHANGED <<objT, objV, calls, last>>

\* The go-kit decoder returns res to the transport.
ReturnKit(r, res) ==
    /\ objV' = res.objV
    /\ last' = [op |-> "KitDecoder", structTag |-> "", form |-> NilMap,
                container |-> kit.in, r |-> r, decoders |-> kit.decoders,
                err |-> res.err, before |-> objV, log |-> res.log,
                response |-> res.response]

\* The transport calls the go-kit decoder with a request.
CallKitDecoder ==
    /\ kit.built
    /\ calls < MaxCalls
    /\ \E r \in RequestsOf(objT.name) : ReturnKit(r, KitDecoder(kit, r, objT, objV))
    /\ calls' = calls + 1
    /\ UNCHANGED <<objT, kit>>

Next == CallParseToStruct \/ CallMagic \/ CallMagicDecoder \/ CallKitDecoder

Spec == Init /\ [][Next]_vars

(***************************************************************************)
(* The properties checked of the model.  They read the last call from      *)
(* last: its arguments, the error it returned, the struct before it, and   *)
(* objV, the struct after it.                                              *)
(***************************************************************************)
\* The destinations that are nil or are not a pointer to a struct.
BadDestinations == {"nil", "struct", "intPtr", "string"}

\* C1, as stated: a nil destination, or one that is not a pointer to a
\* struct, makes ParseToStruct and Magic return an error for every map
\* (nil, empty or not) and every decoder list, and no decoder is invoked.
C1_BadDestinationAlwaysFails ==
    (last.op \in {"ParseToStruct", "Magic"} /\ last.container \in BadDestinations)
        => (last.err # NoError /\ last.log = <<>>)

\* C1, amended: with such a destination Magic returns the type error for
\* every decoder list and invokes no decoder, and ParseToStruct returns the
\* type error for every map that is not nil (empty or not); for a nil map
\* ParseToStruct returns no error.  The destination is left as it was.
C1_BadDestinationFails ==
    /\ (last.op = "Magic" /\ last.container \in BadDestinations)
          => (last.err = TypeError /\ last.log = <<>> /\ objV = last.before)
    /\ (last.op = "ParseToStruct" /\ last.container \in BadDestinations)
          => /\ last.err = (IF last.form.isNil THEN NoError ELSE TypeError)
             /\ objV = last.before

\* Magic was handed the struct by value and two decoders, and refused.
C1_Witness ==
    /\ last.op = "Magic"
    /\ last.container = "struct"
    /\ Len(last.decoders) = 2
    /\ \A i \in 1..2 : last.decoders[i].fn # "nil"
    /\ last.err = TypeError

\* The indexes of the non-nil entries of a decoder list, in order.
NonNil(decoders) ==
    SelectSeq([i \in 1..Len(decoders) |-> i], LAMBDA i : decoders[i].fn # "nil")

\* The struct as the k-th decoder invocation of the last Magic call found it.
StructBefore(k) == IF k = 1 THEN last.before ELSE last.log[k - 1].objV

RECURSIVE RequestBefore(_)
\* The request as the k-th decoder invocation of the last Magic call found
\* it: the request of the call, its body read by the JSON decoders before.
RequestBefore(k) ==
    IF k = 1 THEN last.r
    ELSE Drained(last.decoders[last.log[k - 1].index], RequestBefore(k - 1))

\* The invocations of the last Magic call are the non-nil decoders in the
\* order given, each run on the struct as the one before left it, none after
\* the first that returned an error; Magic returns that error (no error
\* when none failed) and the struct is as the last invocation left it.
RunsInOrder ==
    LET idx == NonNil(last.decoders)
        n   == Len(last.log)
    IN  /\ n <= Len(idx)
        /\ \A k \in 1..n :
              /\ last.log[k].index = idx[k]
              /\ last.log[k].err =
                    RunDecoder(last.decoders[idx[k]], last.container,
                               RequestBefore(k), objT, StructBefore(k)).err
              /\ last.log[k].objV =
                    RunDecoder(last.decoders[idx[k]], last.container,
                               RequestBefore(k), objT, StructBefore(k)).objV
        /\ \A k \in 1..(n - 1) : last.log[k].err = NoError
        /\ n < Len(idx) => (n >= 1 /\ last.log[n].err # NoError)
        /\ last.err = (IF n = 0 THEN NoError ELSE last.log[n].err)
        /\ objV = (IF n = 0 THEN last.before ELSE last.log[n].objV)

\* C2, as stated: Magic runs the non-nil decoders in order, skips nil
\* entries, returns the first error and invokes no later decoder; and when
\* it fails, every field an earlier decoder wrote still holds that value.
C2_EarlierValuesRemain ==
    (last.op = "Magic" /\ last.container \notin BadDestinations) =>
        /\ RunsInOrder
        /\ last.err # NoError =>
              \A i \in 1..Len(objT.fields) :
                 StructBefore(Len(last.log))[i] # last.before[i]
                    => objV[i] = StructBefore(Len(last.log))[i]

\* C2, amended: Magic runs the non-nil decoders in order, skips nil entries,
\* returns the first error and invokes no later decoder; when it fails the
\* destination is as the failing decoder left it, so that a field an earlier
\* decoder wrote still holds that value unless the failing decoder wrote the
\* field itself before it failed.
C2_FirstErrorStops ==
    (last.op = "Magic" /\ last.container \notin BadDestinations) =>
        /\ RunsInOrder
        /\ last.err # NoError =>
              \A i \in 1..Len(objT.fields) :
                 last.log[Len(last.log)].objV[i] = StructBefore(Len(last.log))[i]
                    => objV[i] = StructBefore(Len(last.log))[i]

\* The second of three decoders failed behind a nil entry: the third never
\* ran and what the first wrote is in the struct.
C2_Witness ==
    /\ last.op = "Magic"
    /\ last.container = "structPtr"
    /\ Len(NonNil(last.decoders)) = 3
    /\ \E i \in 1..Len(last.decoders) : last.decoders[i].fn = "nil"
    /\ Len(last.log) = 2
    /\ last.err # NoError
    /\ objV # last.before

\* C3, as stated: ParseToStruct with an empty map or a nil map returns no
\* error and leaves the destination unchanged, whatever the destination
\* argument is.
C3_EmptyOrNilMapSucceeds ==
    (last.op = "ParseToStruct" /\ (last.form.isNil \/ DOMAIN last.form.m = {}))
        => (last.err = NoError /\ objV = last.before)

\* C3, amended: ParseToStruct with a nil map returns no error and leaves the
\* destination unchanged, whatever the destination argument is; with an
\* empty map that is not nil it leaves the destination unchanged too, and
\* returns no error for a pointer to a struct that is not nil, the type
\* error for a nil destination or one that is not a pointer to a struct, and
\* panics for a nil pointer to a struct type that has fields (the nil
\* pointer passes the destination test, and the first field is read from
\* the zero reflect.Value).
C3_NilMapSucceeds ==
    last.op = "ParseToStruct" =>
        /\ last.form.isNil => (last.err = NoError /\ objV = last.before)
        /\ (~last.form.isNil /\ DOMAIN last.form.m = {}) =>
              /\ objV = last.before
              /\ last.container \in {"structPtr", "nilStructPtr"} \cup BadDestinations
              /\ last.container = "structPtr" => last.err = NoError
              /\ last.container \in BadDestinations => last.err = TypeError
              /\ last.container = "nilStructPtr" =>
                    IF Len(objT.fields) = 0 THEN last.err = NoError
                    ELSE last.err.kind = "panic"

\* A nil map and a nil destination, on a struct that already holds values.
C3_Witness ==
    /\ last.op = "ParseToStruct"
    /\ last.form.isNil
    /\ last.container = "nil"
    /\ last.err = NoError
    /\ objV # ZeroStruct(objT)

\* C4: after every call of ParseToStruct with tag namespace N, a field with
\* no tag for N, an empty tag for N or the tag "-" holds the value it held
\* before the call, whatever keys and values the map has.
C4_UntaggedFieldsKeepTheirValue ==
    last.op = "ParseToStruct" =>
        \A i \in 1..Len(objT.fields) :
            TagGet(objT.fields[i], last.structTag) \in {"", "-"}
                => objV[i] = last.before[i]

\* A form with the keys "-", "Number" and "id" bound the name only: the
\* field tagged "-", the untagged field and the field tagged in "path" alone
\* (which an earlier call set) are as they were.
C4_Witness ==
    /\ objT = skipItem
    /\ last.op = "ParseToStruct"
    /\ last.structTag = "form"
    /\ last.container = "structPtr"
    /\ MapGet(last.form, "-") = "dash"
    /\ MapGet(last.form, "Number") = "6"
    /\ MapGet(last.form, "id") = "3"
    /\ objV[1] = "n"
    /\ objV[2] = 0
    /\ objV[3] = ""
    /\ objV[5] = 8

\* The raw text the last ParseToStruct call holds for field i: "" when the
\* field is not bound in the namespace of the call or the map has no text
\* for it.
RawText(i) ==
    IF ~objT.fields[i].exported \/ objT.fields[i].anonymous THEN ""
    ELSE IF TagName(objT.fields[i], last.structTag) = "" THEN ""
    ELSE MapGet(last.form, TagName(objT.fields[i], last.structTag))

\* Field i has no text, or is a string: the call cannot fail at it.
Plain(i) == RawText(i) = "" \/ objT.fields[i].kind = "string"

\* The last call got as far as field i: it returned no error, or no field
\* before i could make it return.
Reached(i) == last.err = NoError \/ \A j \in 1..(i - 1) : Plain(j)

\* The last call was ParseToStruct on a pointer to the struct with a map.
Parsed ==
    last.op = "ParseToStruct" /\ last.container = "structPtr" /\ ~last.form.isNil

\* Two texts that differ in the case of their letters at most.
SameLetter(c, d) ==
    c = d \/ \E k \in 1..26 : {c, d} = {Char("ABCDEFGHIJKLMNOPQRSTUVWXYZ", k),
                                         Char("abcdefghijklmnopqrstuvwxyz", k)}

EqualFold(s, t) ==
    Len(s) = Len(t) /\ \A i \in 1..Len(s) : SameLetter(Char(s, i), Char(t, i))

SaysTrue(text) == \E w \in {"on", "1", "yes", "true"} : EqualFold(text, w)
SaysFalse(text) == \E w \in {"off", "0", "no", "false"} : EqualFold(text, w)

\* Field j is a string or a list of strings after a boolean field i, with a
\* text, and nothing between the two can fail: the call wrote it.
WrittenAfter(i, j) ==
    /\ j > i
    /\ RawText(j) # ""
    /\ \A k \in (i + 1)..(j - 1) : Plain(k)
    /\ \/ /\ objT.fields[j].kind = "string"
          /\ objV[j] = RawText(j)
       \/ /\ objT.fields[j].type = "[]string"
          /\ objV[j] = Split(RawText(j), ",")

\* C5: a tagged boolean field with a non-empty text becomes true for on, 1,
\* yes, true and false for off, 0, no, false, in any letter case; for any
\* other text it keeps its value, the call returns no error on its account
\* and goes on to the fields after it.
C5_Booleans ==
    Parsed =>
        \A i \in 1..Len(objT.fields) :
            (objT.fields[i].kind = "bool" /\ RawText(i) # "" /\ Reached(i)) =>
                IF SaysTrue(RawText(i)) THEN objV[i] = TRUE
                ELSE IF SaysFalse(RawText(i)) THEN objV[i] = FALSE
                ELSE /\ objV[i] = last.before[i]
                     /\ (\A j \in 1..Len(objT.fields) :
                            j = i \/ Plain(j) \/ objT.fields[j].type = "[]string")
                          => last.err = NoError
                     /\ \A j \in (i + 1)..Len(objT.fields) :
                           (RawText(j) # "" /\ \A k \in (i + 1)..(j - 1) : Plain(k)
                              /\ (objT.fields[j].kind = "string"
                                    \/ objT.fields[j].type = "[]string"))
                             => WrittenAfter(i, j)

\* A field that was true met the text "maybe": it is true still, no error,
\* and the list of strings declared after it was written.
C5_Witness ==
    /\ objT = itemComplete
    /\ Parsed
    /\ RawText(4) = "maybe"
    /\ last.before[4] = TRUE
    /\ objV[4] = TRUE
    /\ last.err = NoError
    /\ last.before[6] = <<>>
    /\ objV[6] = <<"Al">>

\* A text that is an optional sign and digits: a base-10 integer (of at most
\* nine digits, which the values of the model hold).
IsBase10Int(p) ==
    LET b == IF p # "" /\ Char(p, 1) \in {"+", "-"} THEN SubSeq(p, 2, Len(p)) ELSE p
    IN  b # "" /\ Len(b) <= 9 /\ AllDigits(b)

RECURSIVE DecValue(_)
DecValue(b) ==
    IF b = "" THEN 0
    ELSE DecValue(SubSeq(b, 1, Len(b) - 1)) * 10 + DigitVal(Char(b, Len(b)))

IntOf(p) ==
    IF Char(p, 1) = "-" THEN 0 - DecValue(SubSeq(p, 2, Len(p)))
    ELSE IF Char(p, 1) = "+" THEN DecValue(SubSeq(p, 2, Len(p)))
    ELSE DecValue(p)

RECURSIVE Join(_)
Join(pieces) ==
    IF Len(pieces) = 1 THEN pieces[1]
    ELSE pieces[1] \o "," \o Join(Tail(pieces))

\* pieces are the pieces of text between its commas.
SplitsOnComma(text, pieces) ==
    /\ Len(pieces) >= 1
    /\ \A k \in 1..Len(pieces) : ~Contains(pieces[k], ",")
    /\ Join(pieces) = text

\* What C6 says of a list-of-integer field with the pieces given.
IntegerList(i, pieces) ==
    LET n   == Len(pieces)
        bad == {k \in 1..n : ~IsBase10Int(pieces[k])}
    IN  IF bad = {}
        THEN /\ objV[i] = [k \in 1..n |-> IntOf(pieces[k])]
             /\ (\A j \in 1..Len(objT.fields) :
                    j = i \/ Plain(j) \/ objT.fields[j].type = "[]string")
                  => last.err = NoError
        ELSE /\ last.err # NoError
             /\ Len(objV[i]) = n
             /\ \A k \in 1..n :
                   objV[i][k] = IF \E b \in bad : b <= k THEN 0 ELSE IntOf(pieces[k])

\* C6: a tagged list-of-integer field with a text of n pieces between commas
\* becomes the list of the n integers when every piece is a base-10 integer;
\* otherwise the call returns an error and the field is a list of length n
\* holding the integers before the first malformed piece and 0 from it on.
C6_IntegerLists ==
    Parsed =>
        \A i \in 1..Len(objT.fields) :
            (objT.fields[i].type = "[]int" /\ RawText(i) # "" /\ Reached(i)) =>
                /\ SplitsOnComma(RawText(i), Split(RawText(i), ","))
                /\ IntegerList(i, Split(RawText(i), ","))

\* "1,2,3," returned an error and left [1, 2, 3, 0].
C6_Witness ==
    /\ objT = itemComplete
    /\ Parsed
    /\ RawText(5) = "1,2,3,"
    /\ last.err # NoError
    /\ objV[5] = <<1, 2, 3, 0>>
    /\ objV[6] = last.before[6]

\* The length classes of a timestamp text, in the order they are tested:
\* the least length, whether the text must hold a 'T' ("yes"), must not
\* ("no") or may ("any"), the format, and the length the text is cut to.
LengthClasses ==
    << [min |-> 25, hasT |-> "any", layout |-> RFC3339,         cut |-> 25],
       [min |-> 19, hasT |-> "yes", layout |-> formatDateTimeT, cut |-> 19],
       [min |-> 19, hasT |-> "no",  layout |-> formatDateTime,  cut |-> 19],
       [min |-> 10, hasT |-> "any", layout |-> formatDate,      cut |-> 10],
       [min |-> 8,  hasT |-> "any", layout |-> formatTime,      cut |-> 8] >>

InClass(text, c) ==
    /\ Len(text) >= c.min
    /\ c.hasT = "yes" => Contains(text, "T")
    /\ c.hasT = "no" => ~Contains(text, "T")

\* The first class a text of at least 8 characters is in.
ClassOf(text) ==
    LengthClasses[CHOOSE k \in 1..Len(LengthClasses) :
                     /\ InClass(text, LengthClasses[k])
                     /\ \A j \in 1..(k - 1) : ~InClass(text, LengthClasses[j])]

\* What C7 says of a timestamp field whose text is in class c, r being the
\* parse of the cut text in the format of c.
OneFormat(i, r) ==
    IF r.err # NoError
    THEN last.err = r.err /\ objV[i] = last.before[i]
    ELSE /\ objV[i] = r.t
         /\ (\A j \in 1..Len(objT.fields) : j = i \/ Plain(j)) => last.err = NoError

\* C7: a tagged timestamp field with a text of 8 characters or more is
\* parsed in the one format of the first length class the text is in, cut to
\* the length of that class; when that parse fails the call returns its
\* error and the field is as it was, whatever a shorter class would give.
C7_OneFormatByLength ==
    Parsed =>
        \A i \in 1..Len(objT.fields) :
            (objT.fields[i].type = "time.Time" /\ Len(RawText(i)) >= 8 /\ Reached(i)) =>
                OneFormat(i, ParseInLocation(ClassOf(RawText(i)).layout,
                                             SubSeq(RawText(i), 1, ClassOf(RawText(i)).cut)))

\* "10:20:30pm" is in the date class and is no date: the call failed, though
\* its first 8 characters are a time of day.
C7_Witness ==
    /\ objT = eventItem
    /\ Parsed
    /\ RawText(2) = "10:20:30pm"
    /\ last.err # NoError
    /\ ParseInLocation(formatTime, SubSeq(RawText(2), 1, 8)).err = NoError
    /\ objV[2] = last.before[2]
    /\ objV[3] = last.before[3]

\* C8, as stated: a tagged timestamp field with a non-empty text shorter
\* than 8 characters keeps the timestamp it held, and the call returns no
\* error on its account.
C8_ShortTextKeepsTheTimestamp ==
    Parsed =>
        \A i \in 1..Len(objT.fields) :
            (objT.fields[i].type = "time.Time" /\ RawText(i) # ""
               /\ Len(RawText(i)) < 8 /\ Reached(i)) =>
                /\ objV[i] = last.before[i]
                /\ (\A j \in 1..Len(objT.fields) : j = i \/ Plain(j))
                     => last.err = NoError

\* Field i is numeric, and its text does not parse as a number of its kind.
Numeric(i) ==
    objT.fields[i].kind \in SignedKinds \cup UnsignedKinds \cup FloatKinds

Malformed(i) ==
    CASE objT.fields[i].kind \in SignedKinds -> ParseInt(RawText(i)).err # NoError
      [] objT.fields[i].kind \in UnsignedKinds -> ParseUint(RawText(i)).err # NoError
      [] objT.fields[i].kind \in FloatKinds -> ParseFloat(RawText(i), 64).err # NoError
      [] OTHER -> FALSE

\* Field i is the first field the last call could fail at, and it is a
\* numeric field with a malformed text.
FirstFailure(i) ==
    /\ Numeric(i)
    /\ RawText(i) # ""
    /\ Malformed(i)
    /\ \A j \in 1..(i - 1) : Plain(j) \/ (Numeric(j) /\ ~Malformed(j))

\* C9: when the text of a tagged signed, unsigned or floating-point field is
\* malformed, the call returns an error; the fields before it hold what this
\* call wrote into them, the failing field and every field after it hold
\* what they held before.
C9_MalformedNumberStops ==
    Parsed =>
        \A i \in 1..Len(objT.fields) :
            FirstFailure(i) =>
                /\ last.err # NoError
                /\ \A j \in i..Len(objT.fields) : objV[j] = last.before[j]
                /\ \A j \in 1..(i - 1) :
                      objV[j] = IF RawText(j) = "" THEN last.before[j]
                                ELSE Coerce(objT.fields[j], last.before[j],
                                            RawText(j)).v

\* The count "abc" stopped the call: the label and the small integer before
\* it were written, the count, the ratio and the trailer after it were not.
C9_Witness ==
    /\ objT = numericItem
    /\ Parsed
    /\ RawText(3) = "abc"
    /\ last.err # NoError
    /\ objV[1] = "e" /\ last.before[1] # "e"
    /\ objV[2] = 6 /\ last.before[2] # 6
    /\ objV[3] = last.before[3] /\ objV[3] # 0
    /\ RawText(4) = "2.5" /\ objV[4] = last.before[4]
    /\ RawText(5) = "t" /\ objV[5] # "t"

\* The types ParseToStruct has a rule for.
Supported(fieldT) ==
    \/ fieldT.kind \in {"bool", "string"}
    \/ fieldT.kind \in SignedKinds \cup UnsignedKinds \cup FloatKinds
    \/ fieldT.type \in {"time.Time", "[]int", "[]string"}

\* No field but i can make the last call fail: each has no text, is a
\* string, or is of a type without a rule (the empty interface, among the
\* interface types).
OthersCannotFail(i) ==
    \A j \in 1..Len(objT.fields) :
        \/ j = i
        \/ Plain(j)
        \/ /\ ~Supported(objT.fields[j])
           /\ objT.fields[j].kind = "interface" => objT.fields[j].type = "interface {}"

\* C10, as stated: a tagged field of a type that is none of boolean, signed,
\* unsigned, floating point, string, timestamp, list of integer, list of
\* string keeps its value and causes no error, whatever non-empty text the
\* map holds for it: interface types included.
C10_OtherTypesUntouched ==
    Parsed =>
        \A i \in 1..Len(objT.fields) :
            (~Supported(objT.fields[i]) /\ RawText(i) # "" /\ Reached(i)) =>
                /\ objV[i] = last.before[i]
                /\ OthersCannotFail(i) => last.err = NoError

\* C10, amended: such a field keeps its value and causes no error when its
\* type is no interface type (another struct type, another slice type, a
\* map, a pointer); a field of the empty interface type is set to the text,
\* as a string, and causes no error either.
C10_OtherTypesButInterfaces ==
    Parsed =>
        \A i \in 1..Len(objT.fields) :
            (~Supported(objT.fields[i]) /\ RawText(i) # "" /\ Reached(i)) =>
                /\ objT.fields[i].kind # "interface" => objV[i] = last.before[i]
                /\ objT.fields[i].type = "interface {}"
                     => objV[i] = StringInterface(RawText(i))
                /\ OthersCannotFail(i) => last.err = NoError

\* A struct that is no timestamp, a list of floats, a map and a pointer had
\* texts and are as they were; the empty interface holds its text.
C10_Witness ==
    /\ objT = otherItem
    /\ Parsed
    /\ last.err = NoError
    /\ \A i \in 2..5 : RawText(i) # "" /\ objV[i] = last.before[i]
    /\ RawText(3) = "1.5,2"
    /\ objV[1] = StringInterface("a")
    /\ objV[8] = "t"

\* The decoders that read the query string, and those that read the route.
QueryDecoders == {"QueryParams", "QueryParamsFields"}
PathDecoders  == {"MuxRouter", "ChiRouter", "ChiRouterFields"}

\* Fields that carry a tag in one namespace alone.
OnlyTag(fieldT, structTag) ==
    /\ TagGet(fieldT, structTag) # ""
    /\ \A g \in {"form", "path", "json"} \ {structTag} : TagGet(fieldT, g) = ""

\* C11, as stated: in every pipeline a decoder of the query string leaves
\* the fields tagged in "path" alone as they were, and a decoder of the
\* route leaves the fields tagged in "form" alone as they were.
C11_OneNamespacePerDecoder ==
    (last.op = "Magic" /\ last.container = "structPtr") =>
        \A k \in 1..Len(last.log) : \A i \in 1..Len(objT.fields) :
            (\/ /\ last.decoders[last.log[k].index].fn \in QueryDecoders
                /\ OnlyTag(objT.fields[i], "path")
             \/ /\ last.decoders[last.log[k].index].fn \in PathDecoders
                /\ OnlyTag(objT.fields[i], "form"))
                => last.log[k].objV[i] = StructBefore(k)[i]

RECURSIVE OtherValue(_)
\* A value of a type [kind, type] that is not its zero value, and that no
\* request of the model holds.
OtherValue(fieldT) ==
    CASE fieldT.kind = "bool" -> TRUE
      [] fieldT.kind \in SignedKinds \cup UnsignedKinds -> 1
      [] fieldT.kind \in FloatKinds -> [FloatZero EXCEPT !.mant = "1"]
      [] fieldT.kind = "string" -> "other"
      [] fieldT.kind = "interface" -> StringInterface("other")
      [] fieldT.kind = "struct" /\ fieldT.type = "time.Time" ->
             [ZeroTime EXCEPT !.year = 2]
      [] fieldT.kind = "slice" ->
             [j \in 1..4 |-> OtherValue(ElemType(fieldT))]
      [] fieldT.kind = "ptr" -> <<OtherValue(ElemType(fieldT))>>
      [] fieldT.kind = "map" ->
             MakeMap([key \in {"other"} |-> OtherValue(ElemType(fieldT))])
      [] OTHER -> 1

OtherStruct(t) == [i \in 1..Len(t.fields) |-> OtherValue(t.fields[i])]

\* The struct the k-th invoked decoder of the last Magic call leaves when it
\* runs alone, on the request as it found it, on the struct v.
Alone(k, v) ==
    RunDecoder(last.decoders[last.log[k].index], "structPtr", RequestBefore(k),
               objT, v).objV

\* What each invoked decoder of the last Magic call leaves of the struct v
\* when it runs alone.
AloneOn(v) == [k \in 1..Len(last.log) |-> Alone(k, v)]

\* The decoders that bind field i, z and o being what the decoders leave of
\* the zero struct and of another one: a decoder binds a field when it does
\* not leave the field as it was.
Binders(i, z, o) ==
    {k \in DOMAIN z : \/ z[k][i] # ZeroStruct(objT)[i]
                      \/ o[k][i] # OtherStruct(objT)[i]}

Latest(ks) == CHOOSE k \in ks : \A j \in ks : j <= k

\* The value decoder k bound field i to: the value it gives the field
\* whatever the field held; and for a decoder whose value is made of what
\* the field held too (the JSON decoder reads the elements of a list into
\* the elements the field has, and the members of an object into the map it
\* has), the value it left in the field.
Bound(k, i, z, o) ==
    IF z[k][i] = o[k][i] THEN z[k][i] ELSE last.log[k].objV[i]

\* C12: after a pipeline in which every decoder succeeded, each field holds
\* the value of the last decoder of the list that bound it, and a field no
\* decoder bound holds what it held before; and two decoders that bind no
\* field in common leave the same struct when run in the other order.
C12_LastBinderWins ==
    (last.op = "Magic" /\ last.container = "structPtr" /\ last.err = NoError) =>
        LET z == AloneOn(ZeroStruct(objT))
            o == AloneOn(OtherStruct(objT))
            swapped == Magic("structPtr", last.r,
                             <<last.decoders[2], last.decoders[1]>>, objT,
                             last.before)
        IN  /\ \A i \in 1..Len(objT.fields) :
                  objV[i] = IF Binders(i, z, o) = {} THEN last.before[i]
                            ELSE Bound(Latest(Binders(i, z, o)), i, z, o)
            /\ (Len(last.log) = 2 /\ Len(last.decoders) = 2
                  /\ \A i \in 1..Len(objT.fields) :
                        Binders(i, z, o) \cap {1, 2} # {1, 2})
                 => (swapped.err = NoError /\ swapped.objV = objV)

\* Two decoders of a pipeline that succeeded bound the same field to two
\* values, and the field holds the later one.
C12_Witness ==
    /\ last.op = "Magic"
    /\ last.container = "structPtr"
    /\ last.err = NoError
    /\ LET z == AloneOn(ZeroStruct(objT))
           o == AloneOn(OtherStruct(objT))
       IN  \E i \in 1..Len(objT.fields) : \E j, k \in Binders(i, z, o) :
              /\ j < k
              /\ k = Latest(Binders(i, z, o))
              /\ z[j][i] = o[j][i]
              /\ z[k][i] = o[k][i]
              /\ z[j][i] # z[k][i]
              /\ objV[i] = z[k][i]
              /\ objV[i] # last.before[i]

\* C13, as stated: the response the go-kit decoder returns for a request it
\* decoded is the user value populated from that request alone: the value
\* handed over when the decoder was built, with the fields the decoders
\* decode from this request, and nothing of an earlier request.
C13_ResponseIsThisRequest ==
    (last.op = "KitDecoder" /\ last.err = NoError) =>
        last.response =
            Magic("structPtr", last.r, kit.decoders, objT, kit.out).objV

\* The map a decoder that goes through ParseToStruct hands to it for a
\* request, and the namespace it hands it with.
ValuesOf(decoder, r) ==
    CASE decoder.fn = "MuxRouter" -> r.vars
      [] decoder.fn = "ChiRouter" -> IF r.chi.isNil THEN NilMap ELSE ChiValues(r.chi)
      [] decoder.fn = "QueryParams" -> QueryValues(r.query)
      [] decoder.fn = "ChiRouterFields" ->
             MakeMap([k \in Range(decoder.fields) |-> URLParam(r.chi, k)])
      [] decoder.fn = "QueryParamsFields" ->
             MakeMap([k \in Range(decoder.fields) |-> QueryGet(r.query, k)])

NamespaceOf(decoder) == IF decoder.fn = "QueryParams" THEN "form" ELSE "path"

MapDecoders ==
    {"MuxRouter", "ChiRouter", "QueryParams", "ChiRouterFields", "QueryParamsFields"}

\* Field i is bound in the namespace to a key the map lacks, or holds with
\* the empty string.
MissingOrEmpty(i, structTag, form) ==
    /\ objT.fields[i].exported
    /\ ~objT.fields[i].anonymous
    /\ TagName(objT.fields[i], structTag) # ""
    /\ MapGet(form, TagName(objT.fields[i], structTag)) = ""

\* A map without the keys it holds with the empty string.
WithoutEmpty(form) ==
    [isNil |-> form.isNil,
     m |-> [k \in {j \in DOMAIN form.m : form.m[j] # ""} |-> form.m[k]]]

\* C14: a tagged field whose key the map lacks or holds with the empty
\* string keeps its value in ParseToStruct, whatever its type; so a decoder
\* of a pipeline whose request has no value, or an empty one, for the key of
\* a field leaves the field as the decoders before it left it; and a decoder
\* built from named keys does what it would do were the keys the request
\* lacks not in its map.
C14_EmptyIsAbsent ==
    /\ Parsed =>
          \A i \in 1..Len(objT.fields) :
              MissingOrEmpty(i, last.structTag, last.form) => objV[i] = last.before[i]
    /\ (last.op = "Magic" /\ last.container = "structPtr") =>
          \A k \in 1..Len(last.log) :
              last.decoders[last.log[k].index].fn \in MapDecoders =>
                 /\ \A i \in 1..Len(objT.fields) :
                       MissingOrEmpty(i, NamespaceOf(last.decoders[last.log[k].index]),
                                      ValuesOf(last.decoders[last.log[k].index], last.r))
                          => last.log[k].objV[i] = StructBefore(k)[i]
                 /\ last.log[k].objV =
                       ParseToStruct(NamespaceOf(last.decoders[last.log[k].index]),
                                     WithoutEmpty(ValuesOf(last.decoders[last.log[k].index],
                                                           last.r)),
                                     "structPtr", objT, StructBefore(k)).objV
                 /\ last.log[k].err =
                       ParseToStruct(NamespaceOf(last.decoders[last.log[k].index]),
                                     WithoutEmpty(ValuesOf(last.decoders[last.log[k].index],
                                                           last.r)),
                                     "structPtr", objT, StructBefore(k)).err

\* The query decoder filled Pet; the route decoder built from the keys id,
\* pet and name ran after it on a route with id alone: it wrote ID, and Pet
\* and Name are as the query decoder left them.
C14_Witness ==
    /\ last.op = "Magic"
    /\ last.container = "structPtr"
    /\ last.err = NoError
    /\ Len(last.log) = 2
    /\ last.decoders[last.log[2].index] =
          DecoderOf("ChiRouterFields", <<"id", "pet", "name">>)
    /\ URLParam(last.r.chi, "id") = "2"
    /\ URLParam(last.r.chi, "pet") = ""
    /\ last.log[1].objV[3] = "cat"
    /\ objV[3] = "cat"
    /\ objV[2] = "bob"
    /\ objV[1] = 2

\* C15, as stated: when ParseToStruct returns no error, every tagged signed
\* or unsigned integer field that had a non-empty text holds the integer the
\* text denotes in base 10; and a text whose integer does not fit the width
\* of the field makes the call return an error.
C15_IntegersAreExact ==
    Parsed =>
        \A i \in 1..Len(objT.fields) :
            (objT.fields[i].kind \in SignedKinds \cup UnsignedKinds
               /\ IsBase10Int(RawText(i)) /\ Reached(i)) =>
                /\ last.err = NoError => objV[i] = IntOf(RawText(i))
                /\ ~FitsKind(objT.fields[i].kind, IntOf(RawText(i)))
                     => last.err # NoError

\* The length a timestamp text of 8 characters or more is cut to.
CutOf(text) ==
    IF Len(text) >= 25 THEN 25
    ELSE IF Len(text) >= 19 THEN 19
    ELSE IF Len(text) >= 10 THEN 10
    ELSE 8

\* C16, as stated: what a timestamp text of 8 characters or more does to
\* its field is what its cut prefix alone does (the same stored instant, or
\* the same error), whatever characters follow the cut; so a text of length
\* 19 to 24 whose first 19 characters are a date and a time with a space
\* between is accepted.
C16_PrefixDecides ==
    Parsed =>
        \A i \in 1..Len(objT.fields) :
            (objT.fields[i].type = "time.Time" /\ Len(RawText(i)) >= 8 /\ Reached(i)) =>
                /\ OneFormat(i, ParseTimestamp(SubSeq(RawText(i), 1, CutOf(RawText(i)))))
                /\ (Len(RawText(i)) \in 19..24
                      /\ ParseInLocation(formatDateTime,
                                         SubSeq(RawText(i), 1, 19)).err = NoError)
                     => objV[i] = ParseInLocation(formatDateTime,
                                                  SubSeq(RawText(i), 1, 19)).t

=============================================================================
